---- MODULE Spec2Model ----
(***************************************************************************)
(* State-machine model of the Jarvis voice-assistant shell.                *)
(*                                                                         *)
(*   core/recorder.py  record_until_silence      (SpecCapture)             *)
(*   main.py           JarvisApp                 (SpecApp)                 *)
(*   ui/window.py      JarvisGUI                 (SpecGUI)                 *)
(*                                                                         *)
(* Each specification drives one component; the variables of the other     *)
(* components stay at their initial values.                                *)
(***************************************************************************)
EXTENDS Integers, Sequences, FiniteSets, TLC

VARIABLES
    \* ---- core/recorder.py : record_until_silence ----
    cap_pc,          \* "loop" while inside `while True`, "done" after return, "off" when unused
    max_duration,    \* parameter max_duration, in clock ticks
    chunk_dur,       \* duration of one chunk (chunk_ms), in clock ticks
    rms_threshold,   \* parameter rms_threshold, on the scale of Rms
    silence_chunks,  \* parameter silence_chunks
    buffer_blocks,   \* list of chunks read so far, each kept as its Rms level
    voiced,          \* local `voiced`
    silence_count,   \* local `silence_count`
    elapsed,         \* time.time() - start_time
    reads,           \* number of stream.read calls made
    treated,         \* history: the <<rms, phase, class>> decisions taken so far
    \* ---- main.py : JarvisApp ----
    app_on,          \* TRUE once JarvisApp.__init__ has run
    orb_present,     \* self.orb exists (assets/ui/orb.gif was found)
    orb_state,       \* state last given to self.orb.set_state
    app_status,      \* text of self.status_label
    config_data,     \* self.config_data: the record loaded at startup or applied last
    wake_listener,   \* self.wake_listener is not None
    listener_alive,  \* self.wake_listener has a running detection loop
    last_ctx,        \* history: the context of the last widget mutation, "ui" or "thread"
    applies,         \* history: number of apply_config calls
    cooldown,        \* ms left of the detector's sleep after a detection
    after_q,         \* Tk timer queue: callbacks ordered by the ms left until due
    cycles,          \* number of triggers handled so far
    cyc_phase,       \* history: the state each cycle's flow last set
    last_emit,       \* history: the cycle and state of the last orb.set_state call
    \* ---- ui/window.py : JarvisGUI ----
    gui_on,          \* TRUE once JarvisGUI.__init__ has run
    idle_model,      \* self.models.get("idle") is set
    active_model,    \* self.models.get("active") is set
    idle_q,          \* self._idle_q: recorded idle clips, each kept as the text it holds
    idle_made,       \* number of idle clips recorded so far
    idle_rec,        \* _idle_recorder_loop is inside record_seconds_to_wav
    wake_confirm,    \* local wake_confirm of _processor_loop
    proc_pc,         \* _processor_loop: "poll", or "capturing" inside record_until_silence
    proc_cyc,        \* history: the cycle the processor's capture belongs to
    man_pc,          \* GUI thread: "idle", or "recording" inside manual_listen
    man_cyc,         \* history: the cycle of the running manual_listen
    restoring,       \* the _restore_and_listen threads inside record_until_silence
    gui_q,           \* callbacks queued on the Tk main loop by after(1, ...)
    status_label,    \* text of self.status_label after "Status: "
    worker,          \* per cycle: the background worker _handle_command started
    ncycles,         \* history: number of capture cycles started
    cyc_path,        \* history: per cycle, the path that started it
    cyc_text,        \* history: per cycle, the transcript of its clip
    cyc_disp,        \* history: per cycle, the number of _handle_command calls
    seen,            \* history: per cycle, the updates the observer has applied
    cyc_file,        \* per cycle, its temporary .wav: "none", "exists" or "removed"
    cyc_raised,      \* history: per cycle, whether its recording call raised
    \* ---- core/wakeword.py : WakewordListener ----
    wl_ctor,         \* "none" before __init__, then "returned" or "raised"
    wakeword_arg,    \* history: the wakeword argument __init__ was given
    wakeword,        \* self.wakeword
    whisper_model,   \* self.whisper_model is not None
    use_porcupine,   \* self.use_porcupine
    porcupine,       \* self._porcupine: "none", "live", or "deleted" after delete()
    create_failed,   \* history: _init_porcupine was run and every attempt failed
    stop_event,      \* self._stop_event is set
    thread,          \* self._thread: "none", its position in _run, "dead" or "crashed"
    pp_open,         \* number of InputStreams _run_porcupine has opened and not closed
    pp_buf,          \* frames the open stream has captured and not yet handed to read
    on_calls,        \* history: number of on_wakeword calls
    cool_det,        \* history: an on_wakeword call came from a frame captured in a cooldown
    fb_log,          \* history: the last fallback clip's transcript and on_wakeword calls
    proc_err,        \* history: self._porcupine.process has raised in this run
    read_err,        \* history: opening or reading the stream has raised in this run
    reported,        \* history: "listener will not run" has been printed
    starts,          \* history: number of threads start() has created
    \* ---- ui/window.py : the idle pipeline, step by step ----
    pl_q,            \* self._idle_q: the queued clips, each with its number and text
    pl_made,         \* number of clips _idle_recorder_loop has appended
    pl_pc,           \* _processor_loop: "test", "sleep", or "pop" after a non-empty test
    pl_heard,        \* history: the clips handed to transcription, in order
    \* ---- ui/orb.py : AnimatedOrb ----
    orb_alive,       \* constructed and not destroyed
    o_state,         \* self._state
    frames,          \* len(self._frames): 0 when no GIF is loaded
    frame_index,     \* self._frame_index
    anim_running,    \* self._anim_running
    anim_id,         \* self._anim_id: "none", "pending", or "stale" (its timer has fired)
    pulse_job,       \* self._pulse_job: "none", "pending" or "stale"
    frame_timers,    \* Tk: pending after() callbacks of _schedule_next_frame
    pulse_timers,    \* Tk: pending after() callbacks of step
    pulse_val,       \* self._pulse_val in thousandths
    pulse_dir,       \* self._pulse_dir
    label_kind,      \* self._label: "ctk" (the dot), "tk" (the image label) or "gone"
    gif_failed,      \* history: the last set_gif call failed while loading
    \* ---- code_extract.py : extract_code ----
    ex_on,                  \* extract_code is running
    max_lines_per_file,     \* the parameter
    files_left,             \* files os.walk has still to yield
    total_files_processed,
    output_file_count,
    current_line_count,     \* lines written to the part that is open
    \* ---- core/wakeword.py, main.py : listeners, their threads, start and stop ----
    lc_mode,         \* per listener: "none" (not constructed), "native", "fallback" (no
                     \* handle, a whisper model) or "idle" (no handle, no model)
    lc_thread,       \* per listener: self._thread: "none", "run" (in _run, before the
                     \* loop), "test" (at the while test), "busy" (reading or recording,
                     \* then processing), "sleep", or "dead"
    lc_stop,         \* per listener: self._stop_event is set
    lc_handle,       \* per listener: self._porcupine: "none", "live" or "deleted"
    lc_last,         \* history, per listener: the call that returned last: "new", "start", "stop"
    lc_calls,        \* history, per listener: number of on_wakeword calls
    lc_late,         \* history, per listener: on_wakeword was called after stop() returned
    lc_used,         \* history, per listener: process() was called on a deleted handle
    lc_current,      \* JarvisApp.wake_listener: a listener, or 0 for None
    \* ---- ui/window.py : _handle_command on a text of characters ----
    dp_text,         \* the text argument
    dp_pc,           \* "call" before _handle_command runs, "done" after
    dp_acts,         \* history: the actions the call dispatched, in order
    \* ---- utils/search.py : one call of download_via_search ----
    dl_pc,           \* position of the call
    query_or_url,    \* kind of the argument, see Arguments
    gui_confirm,     \* a confirm callback was supplied
    url,             \* kind of the url variable, "" before it is assigned
    ok,              \* the ok variable: "unset", "yes" or "no"
    asked,           \* history: calls of gui_confirm
    pieces,          \* pieces the response still holds
    written,         \* pieces written to dest; -1 while dest was not opened
    idle_notes,      \* history: gui_cb calls with status="Idle"
    progress_notes   \* history: gui_cb calls with progress_text

capVars == <<cap_pc, max_duration, chunk_dur, rms_threshold, silence_chunks,
             buffer_blocks, voiced, silence_count, elapsed, reads, treated>>

appVars == <<app_on, orb_present, orb_state, app_status, config_data, wake_listener,
             listener_alive, last_ctx, applies, cooldown, after_q, cycles, cyc_phase,
             last_emit>>

guiVars == <<gui_on, idle_model, active_model, idle_q, idle_made, idle_rec, wake_confirm, proc_pc,
             proc_cyc, man_pc, man_cyc, restoring, gui_q, status_label,
             worker, ncycles, cyc_path, cyc_text, cyc_disp, seen, cyc_file,
             cyc_raised>>

wlVars == <<wl_ctor, wakeword_arg, wakeword, whisper_model, use_porcupine, porcupine, create_failed,
            stop_event, thread, pp_open, pp_buf, on_calls, cool_det, fb_log,
            proc_err, read_err, reported, starts>>

plVars == <<pl_q, pl_made, pl_pc, pl_heard>>

orbVars == <<orb_alive, o_state, frames, frame_index, anim_running, anim_id, pulse_job,
             frame_timers, pulse_timers, pulse_val, pulse_dir, label_kind, gif_failed>>

exVars == <<ex_on, max_lines_per_file, files_left, total_files_processed,
            output_file_count, current_line_count>>

lcVars == <<lc_mode, lc_thread, lc_stop, lc_handle, lc_last, lc_calls, lc_late, lc_used,
            lc_current>>

dpVars == <<dp_text, dp_pc, dp_acts>>

dlVars == <<dl_pc, query_or_url, gui_confirm, url, ok, asked, pieces, written, idle_notes,
            progress_notes>>

vars == <<capVars, appVars, guiVars, wlVars, plVars, orbVars, exVars, lcVars, dpVars,
          dlVars>>

\* what the actions of one component leave alone
capOthers == <<appVars, guiVars, wlVars, plVars, orbVars, exVars, lcVars,
              dpVars, dlVars>>
appOthers == <<capVars, guiVars, wlVars, plVars, orbVars, exVars, lcVars,
              dpVars, dlVars>>
guiOthers == <<capVars, appVars, wlVars, plVars, orbVars, exVars, lcVars,
              dpVars, dlVars>>
wlOthers  == <<capVars, appVars, guiVars, plVars, orbVars, exVars, lcVars,
              dpVars, dlVars>>
plOthers  == <<capVars, appVars, guiVars, wlVars, orbVars, exVars, lcVars,
              dpVars, dlVars>>
orbOthers == <<capVars, appVars, guiVars, wlVars, plVars, exVars, lcVars,
              dpVars, dlVars>>
exOthers  == <<capVars, appVars, guiVars, wlVars, plVars, orbVars, lcVars,
              dpVars, dlVars>>
lcOthers  == <<capVars, appVars, guiVars, wlVars, plVars, orbVars, exVars,
              dpVars, dlVars>>
dpOthers  == <<capVars, appVars, guiVars, wlVars, plVars, orbVars, exVars,
              lcVars, dlVars>>
dlOthers  == <<capVars, appVars, guiVars, wlVars, plVars, orbVars, exVars,
              lcVars, dpVars>>

(***************************************************************************)
(* Bounds of the model.                                                    *)
(***************************************************************************)
MaxDuration      == 5    \* largest max_duration explored (clock ticks)
MaxChunkDur      == 2    \* largest chunk duration explored (clock ticks)
MaxSilenceChunks == 3    \* largest silence_chunks explored
FrameLen         == 2    \* samples per modelled chunk
MaxReads         == 8    \* cap on stream.read calls in one capture
MaxTriggers      == 2    \* triggers (wakeword or push-to-talk) handled by JarvisApp
MaxCycles        == 2    \* capture cycles started in JarvisGUI
MaxIdleClips     == 1    \* idle clips recorded by _idle_recorder_loop
MaxStarts        == 2    \* threads created by WakewordListener.start
MaxDetects       == 2    \* frames or clips holding the keyword, per listener
MaxErrors        == 1    \* exceptions of each kind raised by the engine or the audio device
MaxBuffered      == 1    \* frames the stream buffers while the loop sleeps
MaxApplies       == 1    \* settings saved and applied while JarvisApp runs
MaxFrames        == 2    \* frames of the longest GIF explored
MaxLines         == 12   \* largest max_lines_per_file explored
MaxFiles         == 3    \* files in the source directory
MaxContent       == 2    \* newlines in the longest source file explored
MaxListeners     == 2    \* listeners JarvisApp creates in one run
MaxPieces        == 2    \* pieces a command text is put together from
MaxChunks == 3           \* most pieces a response holds
MaxClips         == 3    \* clips appended to _idle_q in the step-by-step pipeline

(***************************************************************************)
(* core/recorder.py                                                        *)
(***************************************************************************)
\* int16 samples, reduced to the three amplitudes -1, 0, 1
Samples == {-1, 0, 1}
Frames  == [1..FrameLen -> Samples]

RECURSIVE SumSq(_, _)
SumSq(b, i) == IF i = 0 THEN 0 ELSE b[i] * b[i] + SumSq(b, i - 1)

\* recorder.py:49  rms = sqrt(mean((b / 32768) ** 2)).  The chunk length is fixed,
\* and x |-> sqrt(x / n) / 32768 is strictly increasing, so the sum of squares
\* orders chunks exactly as rms does; thresholds are taken on the same scale.
Rms(b) == SumSq(b, FrameLen)

MaxLevel == FrameLen
Levels   == 0 .. MaxLevel

\* Mutant: the deadline as the loop condition, `while elapsed < max_duration`.
LoopCond_Bounded(el, maxd) == el < maxd

\* recorder.py:43  `while True`
LoopCond(el, maxd) == TRUE

\* Mutant: the clock is restarted in every iteration.
ClockAfterRead_Restart(el, d) == 0

\* recorder.py:44,62  stream.read blocks for one chunk, so the time.time() read
\* at the deadline test is one chunk duration later than at the previous one.
ClockAfterRead(el, d) == el + d

\* recorder.py:52  `if rms > rms_threshold` (pre-speech phase)
StartsSpeech(rms, thr) == rms > thr

\* recorder.py:55  `if rms < rms_threshold` (in-speech phase)
CountsSilence(rms, thr) == rms < thr

\* Mutant: off by one, `silence_count > silence_chunks`.
SilenceReached_Strict(cnt, n) == cnt > n

\* recorder.py:57  `if silence_count >= silence_chunks`
SilenceReached(cnt, n) == cnt >= n

\* Mutant: the deadline is measured from the end of the first chunk.
DeadlineReached_Late(el, maxd) == el - chunk_dur > maxd

\* recorder.py:62  `if time.time() - start_time > max_duration`
DeadlineReached(el, maxd) == el > maxd

\* How one loop iteration treats a chunk: in the pre-speech phase a chunk either
\* starts speech or is passed over as silence; in the in-speech phase it either
\* counts towards the trailing silence or resets the count.
TreatedAs(rms, thr, inSpeech) ==
    IF inSpeech
    THEN IF CountsSilence(rms, thr) THEN "SILENT" ELSE "VOICED"
    ELSE IF StartsSpeech(rms, thr) THEN "VOICED" ELSE "SILENT"

CapOff ==
    /\ cap_pc = "off"
    /\ max_duration = 0
    /\ chunk_dur = 1
    /\ rms_threshold = 0
    /\ silence_chunks = 1
    /\ buffer_blocks = <<>>
    /\ voiced = FALSE
    /\ silence_count = 0
    /\ elapsed = 0
    /\ reads = 0
    /\ treated = {}

\* recorder.py:26-40  parameters and the locals before the loop
CapInit ==
    /\ cap_pc = "loop"
    /\ max_duration \in 0 .. MaxDuration
    /\ chunk_dur \in 1 .. MaxChunkDur
    /\ rms_threshold \in Levels
    /\ silence_chunks \in 1 .. MaxSilenceChunks
    /\ buffer_blocks = <<>>
    /\ voiced = FALSE
    /\ silence_count = 0
    /\ elapsed = 0
    /\ reads = 0
    /\ treated = {}

\* recorder.py:43-63  the loop: test its condition, then one iteration on the
\* chunk b (read, append, classify, count silence, test the deadline).
ReadChunk(b) ==
    /\ cap_pc = "loop"
    /\ reads < MaxReads
    /\ IF ~LoopCond(elapsed, max_duration)
       THEN /\ cap_pc' = "done"
            /\ UNCHANGED <<buffer_blocks, voiced, silence_count, elapsed, reads, treated>>
       ELSE LET rms == Rms(b)
                el  == ClockAfterRead(elapsed, chunk_dur)
                nv  == IF voiced THEN TRUE ELSE StartsSpeech(rms, rms_threshold)
                nc  == IF voiced
                       THEN IF CountsSilence(rms, rms_threshold)
                            THEN silence_count + 1 ELSE 0
                       ELSE silence_count
                brk == /\ voiced
                       /\ CountsSilence(rms, rms_threshold)
                       /\ SilenceReached(nc, silence_chunks)
            IN /\ reads' = reads + 1
               /\ elapsed' = el
               /\ buffer_blocks' = Append(buffer_blocks, rms)
               /\ treated' = treated \cup
                     {<<rms, voiced, TreatedAs(rms, rms_threshold, voiced)>>}
               /\ voiced' = nv
               /\ silence_count' = nc
               /\ cap_pc' = IF brk \/ DeadlineReached(el, max_duration)
                            THEN "done" ELSE "loop"
    /\ UNCHANGED <<max_duration, chunk_dur, rms_threshold, silence_chunks>>
    /\ UNCHANGED capOthers

CapNext == \E b \in Frames : ReadChunk(b)

(***************************************************************************)
(* main.py : JarvisApp.  Time is kept in milliseconds left until a timer   *)
(* is due; the clock advances in steps of 100 ms.                          *)
(***************************************************************************)
ThinkingAfter      == 1200   \* main.py:112 and :122
SpeakingAfterWake  == 2500   \* main.py:113
SpeakingAfterManual == 2400  \* main.py:123
IdleAfter          == 3600   \* main.py:114 and :124
DetectorCooldown   == 500    \* core/wakeword.py:176  time.sleep(0.5)

Cycles == 1 .. MaxTriggers

AppOff ==
    /\ app_on = FALSE
    /\ orb_present = FALSE
    /\ orb_state = "none"
    /\ app_status = "Idle"
    /\ config_data = <<>>
    /\ wake_listener = FALSE
    /\ listener_alive = FALSE
    /\ last_ctx = "ui"
    /\ applies = 0
    /\ cooldown = 0
    /\ after_q = <<>>
    /\ cycles = 0
    /\ cyc_phase = [c \in Cycles |-> "none"]
    /\ last_emit = [cyc |-> 0, st |-> "none"]

\* dict.get(key, default)
Get(rec, key, default) == IF key \in DOMAIN rec THEN rec[key] ELSE default

\* main.py:27-34  the record load_config returns when there is no usable file
DefaultConfig == [wakeword_enabled |-> TRUE, dark_mode |-> TRUE]

\* the records a config file or the settings window may hold: nothing, the
\* wakeword switch on or off, a record without the switch, a record with a key
\* the program does not know
ConfigRecords ==
    {<<>>, [wakeword_enabled |-> TRUE], [wakeword_enabled |-> FALSE],
     [dark_mode |-> FALSE], [wakeword_enabled |-> FALSE, volume |-> TRUE]}

\* config.json: absent, unreadable as JSON, or holding a record
ConfigFiles ==
    {[kind |-> "absent", rec |-> <<>>], [kind |-> "corrupt", rec |-> <<>>]}
    \cup {[kind |-> "record", rec |-> r] : r \in ConfigRecords}

\* main.py:20-34  load_config
LoadConfig(file) == IF file.kind = "record" THEN file.rec ELSE DefaultConfig

\* main.py:83  self.config_data.get("wakeword_enabled", True)
StartupEnabled(cfg) == Get(cfg, "wakeword_enabled", TRUE)

\* main.py:133  `if cfg.get("wakeword_enabled")`: None, hence false, without the key
ApplyEnabled(cfg) == Get(cfg, "wakeword_enabled", FALSE)

\* main.py:43-84  JarvisApp.__init__ on the record cfg; main.py:86-98
\* start_wakeword_listener.  The listener is created with use_porcupine=True and
\* whisper_model=None, so its loop runs only if the native engine could be
\* constructed.
AppStart(cfg, native) ==
    /\ app_on = TRUE
    /\ orb_present \in BOOLEAN
    /\ orb_state = IF orb_present THEN "idle" ELSE "none"
    /\ config_data = cfg
    /\ wake_listener = StartupEnabled(cfg)
    /\ listener_alive = (StartupEnabled(cfg) /\ native)
    /\ app_status = IF StartupEnabled(cfg) THEN "Wakeword listening..." ELSE "Idle"
    /\ last_ctx = "ui"
    /\ applies = 0
    /\ cooldown = 0
    /\ after_q = <<>>
    /\ cycles = 0
    /\ cyc_phase = [c \in Cycles |-> "none"]
    /\ last_emit = [cyc |-> 0, st |-> "none"]

\* JarvisApp started on a record that holds the wakeword switch
AppInit ==
    \E enabled \in BOOLEAN, native \in BOOLEAN :
        AppStart([wakeword_enabled |-> enabled], native)

\* JarvisApp started on whatever config.json holds
AppInitFromFile ==
    \E file \in ConfigFiles, native \in BOOLEAN : AppStart(LoadConfig(file), native)

\* Tk's after(ms, cb): the timer list is kept sorted by due time, a new timer going
\* behind those already due at the same time.
After(q, ms, cb) ==
    LET k == Cardinality({i \in 1 .. Len(q) : q[i].due <= ms})
    IN SubSeq(q, 1, k) \o <<[due |-> ms] @@ cb>> \o SubSeq(q, k + 1, Len(q))

\* self.orb.set_state(st) on behalf of cycle c; AttributeError when self.orb is missing
SetOrb(c, st) ==
    IF orb_present
    THEN /\ orb_state' = st
         /\ last_emit' = [cyc |-> c, st |-> st]
    ELSE UNCHANGED <<orb_state, last_emit>>

\* main.py:104-114 _wakeword_triggered and main.py:116-124 _simulate_manual_trigger:
\* the label text, orb.set_state("listening") inside try/except, and three timers.
StartFlow(q, label, speakAfter, speakLabel) ==
    LET c  == cycles + 1
        q1 == After(q, ThinkingAfter, [cb |-> "flow", cyc |-> c, st |-> "thinking", label |-> "Thinking..."])
        q2 == After(q1, speakAfter, [cb |-> "flow", cyc |-> c, st |-> "speaking", label |-> speakLabel])
        q3 == After(q2, IdleAfter, [cb |-> "flow", cyc |-> c, st |-> "idle", label |-> "Idle"])
    IN /\ cycles' = c
       /\ app_status' = label
       /\ SetOrb(c, "listening")
       /\ cyc_phase' = [cyc_phase EXCEPT ![c] = "listening"]
       /\ after_q' = q3

\* main.py:72,116-124  the Push to Talk button runs _simulate_manual_trigger
ManualTrigger ==
    /\ app_on
    /\ cycles < MaxTriggers
    /\ StartFlow(after_q, "Manual activation!", SpeakingAfterManual, "Done.")
    /\ last_ctx' = "ui"
    /\ UNCHANGED <<app_on, orb_present, config_data, wake_listener, listener_alive,
                   applies, cooldown>>
    /\ UNCHANGED appOthers

\* main.py:100-102  on_wakeword_detected, called on the detector thread:
\* self.after(0, self._wakeword_triggered); the detector then sleeps.
WakewordDetected ==
    /\ app_on
    /\ listener_alive
    /\ cooldown = 0
    /\ cycles + Cardinality({i \in 1 .. Len(after_q) : after_q[i].cb = "wake"}) < MaxTriggers
    /\ after_q' = After(after_q, 0, [cb |-> "wake", cyc |-> 0, st |-> "none", label |-> ""])
    /\ cooldown' = DetectorCooldown
    /\ UNCHANGED <<app_on, orb_present, orb_state, app_status, config_data,
                   wake_listener, listener_alive, last_ctx, applies,
                   cycles, cyc_phase, last_emit>>
    /\ UNCHANGED appOthers

\* The Tk main loop runs the first timer once it is due: either
\* _wakeword_triggered (main.py:104-114) or one of the flow's lambdas
\* (main.py:112-114, 122-124), whose tuple is evaluated left to right:
\* orb.set_state first, then status_label.configure.
TimerFires ==
    /\ app_on
    /\ after_q # <<>>
    /\ after_q[1].due <= 0
    /\ LET t == after_q[1]
       IN IF t.cb = "wake"
          THEN StartFlow(Tail(after_q), "Wakeword detected!", SpeakingAfterWake, "Speaking...")
          ELSE /\ after_q' = Tail(after_q)
               /\ SetOrb(t.cyc, t.st)
               /\ app_status' = IF orb_present THEN t.label ELSE app_status
               /\ cyc_phase' = [cyc_phase EXCEPT ![t.cyc] = t.st]
               /\ UNCHANGED cycles
    /\ last_ctx' = "ui"
    /\ UNCHANGED <<app_on, orb_present, config_data, wake_listener, listener_alive,
                   applies, cooldown>>
    /\ UNCHANGED appOthers

\* 100 ms pass; no timer is left waiting once it is due.
Tick ==
    /\ app_on
    /\ after_q # <<>> \/ cooldown > 0
    /\ after_q # <<>> => after_q[1].due > 0
    /\ after_q' = [i \in 1 .. Len(after_q) |-> [after_q[i] EXCEPT !.due = @ - 100]]
    /\ cooldown' = IF cooldown > 100 THEN cooldown - 100 ELSE 0
    /\ UNCHANGED <<app_on, orb_present, orb_state, app_status, config_data,
                   wake_listener, listener_alive, last_ctx, applies,
                   cycles, cyc_phase, last_emit>>
    /\ UNCHANGED appOthers

\* settings_window.py:165-172  _on_save calls on_save(cfg) on a new thread, or
\* directly when the thread cannot be started
OnSaveContext(threadStarts) == IF threadStarts THEN "thread" ELSE "ui"

\* settings_window.py:143-172 _on_save and main.py:129-143 apply_config: the record
\* is saved and kept, the appearance mode is set, and the listener is replaced
\* (main.py:86-98) or stopped; label and orb are configured by the caller itself.
ApplyConfig(cfg, native, threadStarts) ==
    /\ app_on
    /\ applies < MaxApplies
    /\ applies' = applies + 1
    /\ config_data' = cfg
    /\ last_ctx' = OnSaveContext(threadStarts)
    /\ IF ApplyEnabled(cfg)
       THEN /\ wake_listener' = TRUE
            /\ listener_alive' = native
            /\ app_status' = "Wakeword listening..."
            /\ UNCHANGED <<orb_state, last_emit>>
       ELSE /\ native = FALSE
            /\ wake_listener' = FALSE
            /\ listener_alive' = FALSE
            /\ app_status' = "Wakeword disabled."
            /\ SetOrb(0, "idle")
    /\ cooldown' = 0
    /\ UNCHANGED <<app_on, orb_present, after_q, cycles, cyc_phase>>
    /\ UNCHANGED appOthers

AppNext == ManualTrigger \/ WakewordDetected \/ TimerFires \/ Tick

AppCfgNext ==
    \/ ManualTrigger
    \/ WakewordDetected
    \/ TimerFires
    \/ Tick
    \/ \E cfg \in ConfigRecords, native \in BOOLEAN, threadStarts \in BOOLEAN :
          ApplyConfig(cfg, native, threadStarts)

(***************************************************************************)
(* ui/window.py : JarvisGUI.  A text is the sequence of its words.         *)
(***************************************************************************)
GuiCycles == 1 .. MaxCycles

\* what an idle clip may hold
IdleTexts == {<<"Hey", "Jarvis">>, <<"music">>}

\* what an active clip may hold (transcribe_with_whisper strips it; "" on failure)
ActiveTexts == {<<>>, <<"Open", "site">>, <<"what", "time", "is", "it">>}

\* str.lower() on one word
LowerWord(w) ==
    CASE w = "Hey" -> "hey"
      [] w = "Jarvis" -> "jarvis"
      [] w = "Open" -> "open"
      [] OTHER -> w

\* str.lower() on a text
Lower(text) == [i \in 1 .. Len(text) |-> LowerWord(text[i])]

\* `word in text`
Has(text, word) == \E i \in 1 .. Len(text) : text[i] = word

\* asr.py:89-96 behind `... if self.models.get(m) else ""` (window.py:156,180,192,364)
Transcribe(model, text) == IF model THEN text ELSE <<>>

\* window.py:182  "jarvis" in (text or "").lower() or "hey jarvis" in ...
WakeMatch(text) == Has(Lower(text), "jarvis")

\* Mutant: two matching clips in a row are asked for.
WakeConfirmed_Two(n) == n >= 2

\* window.py:186  `if wake_confirm >= 1`
WakeConfirmed(n) == n >= 1

\* window.py:207-234  the rule _handle_command applies to the text
Route(text) ==
    LET q == Lower(text)
    IN CASE q = <<>> -> "none"
         [] q # <<>> /\ Len(q) >= 2 /\ q[1] = "open" -> "open"
         [] q # <<>> /\ ~(Len(q) >= 2 /\ q[1] = "open") /\ Has(q, "download") -> "download"
         [] OTHER ->
              IF Has(q, "explain") /\ Has(q, "screen") THEN "explain"
              ELSE IF Has(q, "system") \/ Has(q, "cpu") \/ Has(q, "memory") THEN "system"
              ELSE "search"

\* window.py:128-140  gui_callback(...) queues _u; an update is kept as the cycle it
\* belongs to, its status ("" when none is given) and its assistant text.
Upd(c, st, note) == [kind |-> "update", cyc |-> c, status |-> st, note |-> note]

\* window.py:207-256  _handle_command: the updates it queues and the worker it starts
HandleCommand(c, text) ==
    LET r == Route(text)
    IN [posts  |-> CASE r = "open" -> <<Upd(c, "Idle", "Opened")>>
                     [] r = "system" -> <<Upd(c, "Idle", "stats")>>
                     [] r = "search" -> <<Upd(c, "Searching", "Searching...")>>
                     [] OTHER -> <<>>,
        worker |-> IF r \in {"download", "explain", "search"} THEN r ELSE "none",
        calls  |-> 1]

\* Mutant: the empty transcript is dispatched like any other.
AfterCapture_NoTest(c, text) ==
    [posts  |-> <<Upd(c, "Thinking", "Thinking...")>> \o HandleCommand(c, text).posts,
     worker |-> HandleCommand(c, text).worker,
     calls  |-> 1]

\* window.py:160-163, 193-197, 367-369  what follows the transcription of the clip
AfterCapture(c, text) ==
    IF text = <<>>
    THEN [posts |-> <<Upd(c, "Idle", "No speech detected")>>, worker |-> "none", calls |-> 0]
    ELSE [posts  |-> <<Upd(c, "Thinking", "Thinking...")>> \o HandleCommand(c, text).posts,
          worker |-> HandleCommand(c, text).worker,
          calls  |-> HandleCommand(c, text).calls]

GuiOff ==
    /\ gui_on = FALSE
    /\ idle_model = FALSE
    /\ active_model = FALSE
    /\ idle_q = <<>>
    /\ idle_made = 0
    /\ idle_rec = FALSE
    /\ wake_confirm = 0
    /\ proc_pc = "poll"
    /\ proc_cyc = 0
    /\ man_pc = "idle"
    /\ man_cyc = 0
    /\ restoring = {}
    /\ gui_q = <<>>
    /\ status_label = "Idle"
    /\ worker = [c \in GuiCycles |-> "none"]
    /\ ncycles = 0
    /\ cyc_path = [c \in GuiCycles |-> "none"]
    /\ cyc_text = [c \in GuiCycles |-> <<"?">>]
    /\ cyc_disp = [c \in GuiCycles |-> 0]
    /\ seen = [c \in GuiCycles |-> <<>>]
    /\ cyc_file = [c \in GuiCycles |-> "none"]
    /\ cyc_raised = [c \in GuiCycles |-> FALSE]

\* window.py:37-114  JarvisGUI.__init__ with LISTEN_MODE = "both"
GuiInit ==
    /\ gui_on = TRUE
    /\ idle_model \in BOOLEAN
    /\ active_model \in BOOLEAN
    /\ idle_q = <<>>
    /\ idle_made = 0
    /\ idle_rec = FALSE
    /\ wake_confirm = 0
    /\ proc_pc = "poll"
    /\ proc_cyc = 0
    /\ man_pc = "idle"
    /\ man_cyc = 0
    /\ restoring = {}
    /\ gui_q = <<>>
    /\ status_label = "Idle"
    /\ worker = [c \in GuiCycles |-> "none"]
    /\ ncycles = 0
    /\ cyc_path = [c \in GuiCycles |-> "none"]
    /\ cyc_text = [c \in GuiCycles |-> <<"?">>]
    /\ cyc_disp = [c \in GuiCycles |-> 0]
    /\ seen = [c \in GuiCycles |-> <<>>]
    /\ cyc_file = [c \in GuiCycles |-> "none"]
    /\ cyc_raised = [c \in GuiCycles |-> FALSE]

\* window.py:151-152, 188-189, 361-362  A capture cycle c begins on the given
\* path: its temporary file is created.
BeginCycle(c, path) ==
    /\ ncycles < MaxCycles
    /\ c = ncycles + 1
    /\ ncycles' = c
    /\ cyc_path' = [cyc_path EXCEPT ![c] = path]
    /\ cyc_file' = [cyc_file EXCEPT ![c] = "exists"]

\* The clip of cycle c has been transcribed to text: the file is removed
\* (window.py:157-159, 198-199, 365-366) and the code after the capture runs.
EndCapture(c, text) ==
    LET a == AfterCapture(c, text)
    IN /\ gui_q' = gui_q \o a.posts
       /\ worker' = [worker EXCEPT ![c] = a.worker]
       /\ cyc_text' = [cyc_text EXCEPT ![c] = text]
       /\ cyc_disp' = [cyc_disp EXCEPT ![c] = @ + a.calls]
       /\ cyc_file' = [cyc_file EXCEPT ![c] = "removed"]

\* window.py:112,165-169  the _idle_recorder_loop thread starts and enters
\* record_seconds_to_wav(3, ...) for the first time
IdleBegin ==
    /\ gui_on
    /\ ~idle_rec
    /\ idle_rec' = TRUE
    /\ UNCHANGED <<gui_on, idle_model, active_model, idle_q, idle_made, wake_confirm,
                   proc_pc, proc_cyc, man_pc, man_cyc, restoring, gui_q, status_label,
                   worker, ncycles, cyc_path, cyc_text, cyc_disp, seen, cyc_file,
                   cyc_raised>>
    /\ UNCHANGED guiOthers

\* window.py:166-171  _idle_recorder_loop: the 3 s clip is recorded and queued, and
\* after time.sleep(0.1) the loop is inside record_seconds_to_wav again
IdleRecord(text) ==
    /\ gui_on
    /\ idle_rec
    /\ idle_made < MaxIdleClips
    /\ idle_made' = idle_made + 1
    /\ idle_q' = Append(idle_q, text)
    /\ UNCHANGED <<gui_on, idle_model, active_model, idle_rec, wake_confirm, proc_pc,
                   proc_cyc, man_pc, man_cyc, restoring, gui_q, status_label,
                   worker, ncycles, cyc_path, cyc_text, cyc_disp, seen, cyc_file,
                   cyc_raised>>
    /\ UNCHANGED guiOthers

\* window.py:176-191  _processor_loop: pop a clip, transcribe it, look for the wake
\* word; on a match say "Yes?" and enter record_until_silence.
ProcessIdleClip ==
    /\ gui_on
    /\ proc_pc = "poll"
    /\ idle_q # <<>>
    /\ LET text == Transcribe(idle_model, Head(idle_q))
           wc   == IF WakeMatch(text) THEN wake_confirm + 1 ELSE 0
       IN /\ idle_q' = Tail(idle_q)
          /\ wake_confirm' = IF WakeConfirmed(wc) THEN 0 ELSE wc
          /\ IF WakeConfirmed(wc) /\ ncycles < MaxCycles
             THEN /\ BeginCycle(ncycles + 1, "wake")
                  /\ proc_pc' = "capturing"
                  /\ proc_cyc' = ncycles + 1
             ELSE UNCHANGED <<proc_pc, proc_cyc, ncycles, cyc_path, cyc_file>>
    /\ UNCHANGED <<gui_on, idle_model, active_model, idle_made, idle_rec, man_pc, man_cyc, restoring,
                   gui_q, status_label, worker, cyc_text, cyc_disp, seen, cyc_raised>>
    /\ UNCHANGED guiOthers

\* window.py:191-199  _processor_loop: the capture returns, the clip is transcribed
\* with the active model, and the command is handled or "No speech detected" shown.
ProcessorCaptured(clip) ==
    /\ gui_on
    /\ proc_pc = "capturing"
    /\ EndCapture(proc_cyc, Transcribe(active_model, clip))
    /\ proc_pc' = "poll"
    /\ UNCHANGED <<gui_on, idle_model, active_model, idle_q, idle_made, idle_rec, wake_confirm,
                   proc_cyc, man_pc, man_cyc, restoring, status_label,
                   ncycles, cyc_path, seen, cyc_raised>>
    /\ UNCHANGED guiOthers

\* window.py:91,149-155  Push-to-talk runs manual_listen on the Tk main loop:
\* gui_callback(status="Listening"), then record_seconds_to_wav(6, ...).
ManualListen ==
    /\ gui_on
    /\ man_pc = "idle"
    /\ BeginCycle(ncycles + 1, "ptt")
    /\ man_pc' = "recording"
    /\ man_cyc' = ncycles + 1
    /\ gui_q' = Append(gui_q, Upd(ncycles + 1, "Listening", ""))
    /\ UNCHANGED <<gui_on, idle_model, active_model, idle_q, idle_made, idle_rec, wake_confirm,
                   proc_pc, proc_cyc, restoring, status_label, worker,
                   cyc_text, cyc_disp, seen, cyc_raised>>
    /\ UNCHANGED guiOthers

\* window.py:155-163  manual_listen: the recording ends, the clip is transcribed
\* and the handler finishes.
ManualCaptured(clip) ==
    /\ gui_on
    /\ man_pc = "recording"
    /\ EndCapture(man_cyc, Transcribe(active_model, clip))
    /\ man_pc' = "idle"
    /\ UNCHANGED <<gui_on, idle_model, active_model, idle_q, idle_made, idle_rec, wake_confirm,
                   proc_pc, proc_cyc, man_cyc, restoring, status_label,
                   ncycles, cyc_path, seen, cyc_raised>>
    /\ UNCHANGED guiOthers

\* window.py:321-323, 351-363  the window is minimized to the orb overlay and the
\* overlay is clicked (both on the Tk main loop): on_click starts a
\* _restore_and_listen thread, which calls gui_callback(status="Listening") and
\* enters record_until_silence.
RestoreAndListen ==
    /\ gui_on
    /\ man_pc = "idle"
    /\ BeginCycle(ncycles + 1, "restore")
    /\ restoring' = restoring \cup {ncycles + 1}
    /\ gui_q' = Append(gui_q, Upd(ncycles + 1, "Listening", "Ready - listening..."))
    /\ UNCHANGED <<gui_on, idle_model, active_model, idle_q, idle_made, idle_rec, wake_confirm,
                   proc_pc, proc_cyc, man_pc, man_cyc, status_label, worker,
                   cyc_text, cyc_disp, seen, cyc_raised>>
    /\ UNCHANGED guiOthers

\* window.py:363-369  _restore_and_listen: the capture returns, the clip is
\* transcribed and the thread finishes.
RestoreCaptured(c, clip) ==
    /\ gui_on
    /\ c \in restoring
    /\ EndCapture(c, Transcribe(active_model, clip))
    /\ restoring' = restoring \ {c}
    /\ UNCHANGED <<gui_on, idle_model, active_model, idle_q, idle_made, idle_rec, wake_confirm,
                   proc_pc, proc_cyc, man_pc, man_cyc, status_label,
                   ncycles, cyc_path, seen, cyc_raised>>
    /\ UNCHANGED guiOthers

\* The worker thread of cycle c comes to its end:
\*   window.py:235-256  _search_and_show queues a callback on the main loop;
\*   search.py:174-208  download_via_search ends with one status="Idle" update;
\*   screen.py:16-52    screen_ocr_loop ends with one status="Idle" update.
\* The progress updates these two send before the end carry no status and are
\* left out.
WorkerEnds(c, note) ==
    /\ gui_on
    /\ worker[c] \in {"search", "download", "explain"}
    /\ gui_q' = Append(gui_q,
          IF worker[c] = "search"
          THEN [kind |-> "show", cyc |-> c, status |-> "", note |-> note]
          ELSE Upd(c, "Idle", note))
    /\ worker' = [worker EXCEPT ![c] = "none"]
    /\ UNCHANGED <<gui_on, idle_model, active_model, idle_q, idle_made, idle_rec, wake_confirm,
                   proc_pc, proc_cyc, man_pc, man_cyc, restoring,
                   status_label, ncycles, cyc_path, cyc_text, cyc_disp, seen, cyc_file,
                   cyc_raised>>
    /\ UNCHANGED guiOthers

\* The Tk main loop, when no handler is running, runs the first queued callback:
\*   window.py:129-139  _u applies an update to the widgets;
\*   window.py:251,255,259-279  the search callback calls gui_callback(status="Idle").
MainLoopRuns ==
    /\ gui_on
    /\ man_pc = "idle"
    /\ gui_q # <<>>
    /\ LET cb == Head(gui_q)
       IN IF cb.kind = "show"
          THEN /\ gui_q' = Append(Tail(gui_q), Upd(cb.cyc, "Idle", cb.note))
               /\ UNCHANGED <<status_label, seen>>
          ELSE /\ gui_q' = Tail(gui_q)
               /\ status_label' = IF cb.status # "" THEN cb.status ELSE status_label
               /\ seen' = [seen EXCEPT ![cb.cyc] = Append(@, <<cb.status, cb.note>>)]
    /\ UNCHANGED <<gui_on, idle_model, active_model, idle_q, idle_made, idle_rec, wake_confirm,
                   proc_pc, proc_cyc, man_pc, man_cyc, restoring,
                   worker, ncycles, cyc_path, cyc_text, cyc_disp, cyc_file,
                   cyc_raised>>
    /\ UNCHANGED guiOthers

\* window.py:149-159 with recorder.py:18  manual_listen: record_seconds_to_wav
\* raises (sd.rec without a usable device); the finally clause removes the file
\* and the exception leaves the handler, which posts nothing more.
ManualCaptureRaises ==
    /\ gui_on
    /\ man_pc = "recording"
    /\ man_pc' = "idle"
    /\ cyc_file' = [cyc_file EXCEPT ![man_cyc] = "removed"]
    /\ cyc_raised' = [cyc_raised EXCEPT ![man_cyc] = TRUE]
    /\ UNCHANGED <<gui_on, idle_model, active_model, idle_q, idle_made, idle_rec, wake_confirm,
                   proc_pc, proc_cyc, man_cyc, restoring, gui_q, status_label, worker,
                   ncycles, cyc_path, cyc_text, cyc_disp, seen>>
    /\ UNCHANGED guiOthers

\* window.py:359-363 with recorder.py:34-35  _restore_and_listen:
\* record_until_silence raises (sd.InputStream without a usable device); nothing
\* catches it, the thread ends there.
RestoreCaptureRaises(c) ==
    /\ gui_on
    /\ c \in restoring
    /\ restoring' = restoring \ {c}
    /\ cyc_raised' = [cyc_raised EXCEPT ![c] = TRUE]
    /\ UNCHANGED <<gui_on, idle_model, active_model, idle_q, idle_made, idle_rec, wake_confirm,
                   proc_pc, proc_cyc, man_pc, man_cyc, gui_q, status_label, worker,
                   ncycles, cyc_path, cyc_text, cyc_disp, seen, cyc_file>>
    /\ UNCHANGED guiOthers

\* window.py:188-204 with recorder.py:34-35  _processor_loop: record_until_silence
\* raises; `except Exception` prints it, the finally clause removes the idle clip,
\* and the loop polls again.
ProcessorCaptureRaises ==
    /\ gui_on
    /\ proc_pc = "capturing"
    /\ proc_pc' = "poll"
    /\ cyc_raised' = [cyc_raised EXCEPT ![proc_cyc] = TRUE]
    /\ UNCHANGED <<gui_on, idle_model, active_model, idle_q, idle_made, idle_rec, wake_confirm,
                   proc_cyc, man_pc, man_cyc, restoring, gui_q, status_label, worker,
                   ncycles, cyc_path, cyc_text, cyc_disp, seen, cyc_file>>
    /\ UNCHANGED guiOthers

GuiNext ==
    \/ IdleBegin
    \/ \E text \in IdleTexts : IdleRecord(text)
    \/ ProcessIdleClip
    \/ \E clip \in ActiveTexts : ProcessorCaptured(clip)
    \/ ManualListen
    \/ \E clip \in ActiveTexts : ManualCaptured(clip)
    \/ RestoreAndListen
    \/ \E c \in GuiCycles, clip \in ActiveTexts : RestoreCaptured(c, clip)
    \/ \E c \in GuiCycles : WorkerEnds(c, "done")
    \/ MainLoopRuns

\* GuiNext, and the recording calls may raise
GuiErrNext ==
    \/ IdleBegin
    \/ \E text \in IdleTexts : IdleRecord(text)
    \/ ProcessIdleClip
    \/ \E clip \in ActiveTexts : ProcessorCaptured(clip)
    \/ ProcessorCaptureRaises
    \/ ManualListen
    \/ \E clip \in ActiveTexts : ManualCaptured(clip)
    \/ ManualCaptureRaises
    \/ RestoreAndListen
    \/ \E c \in GuiCycles, clip \in ActiveTexts : RestoreCaptured(c, clip)
    \/ \E c \in GuiCycles : RestoreCaptureRaises(c)
    \/ \E c \in GuiCycles : WorkerEnds(c, "done")
    \/ MainLoopRuns

(***************************************************************************)
(* ui/window.py : _idle_recorder_loop and _processor_loop around _idle_q,  *)
(* with the processor's emptiness test and its pop as separate steps.      *)
(***************************************************************************)
\* Mutant: list.pop() takes the newest clip.
Dequeue_Last(q) == [item |-> q[Len(q)], rest |-> SubSeq(q, 1, Len(q) - 1)]

\* window.py:178  path = self._idle_q.pop(0)
Dequeue(q) == [item |-> Head(q), rest |-> Tail(q)]

PlInit ==
    /\ pl_q = <<>>
    /\ pl_made = 0
    /\ pl_pc = "test"
    /\ pl_heard = <<>>

\* window.py:166-170  _idle_recorder_loop: a clip is recorded and appended
PlAppend(text) ==
    /\ pl_made < MaxClips
    /\ pl_made' = pl_made + 1
    /\ pl_q' = Append(pl_q, [n |-> pl_made + 1, text |-> text])
    /\ UNCHANGED <<pl_pc, pl_heard>>
    /\ UNCHANGED plOthers

\* window.py:176-177  _processor_loop: `if not self._idle_q`
PlTest ==
    /\ pl_pc = "test"
    /\ pl_pc' = IF pl_q = <<>> THEN "sleep" ELSE "pop"
    /\ UNCHANGED <<pl_q, pl_made, pl_heard>>
    /\ UNCHANGED plOthers

\* window.py:177  time.sleep(0.1); continue
PlSleep ==
    /\ pl_pc = "sleep"
    /\ pl_pc' = "test"
    /\ UNCHANGED <<pl_q, pl_made, pl_heard>>
    /\ UNCHANGED plOthers

\* window.py:178-204  _processor_loop: pop(0), then the rest of the pass on the
\* popped clip (transcription, wake test, removal of the file)
PlPop ==
    /\ pl_pc = "pop"
    /\ pl_q # <<>>
    /\ pl_q' = Dequeue(pl_q).rest
    /\ pl_heard' = Append(pl_heard, Dequeue(pl_q).item)
    /\ pl_pc' = "test"
    /\ UNCHANGED pl_made
    /\ UNCHANGED plOthers

PlNext ==
    \/ \E text \in IdleTexts : PlAppend(text)
    \/ PlTest
    \/ PlSleep
    \/ PlPop

(***************************************************************************)
(* core/wakeword.py and main.py : start() and stop() against the detection *)
(* thread, with the loop's flag test, its blocking work and its sleep as   *)
(* separate steps.  Time is not modelled: join(timeout=1.0) returns with   *)
(* the thread ended or, on the timeout, with the thread where it was.      *)
(***************************************************************************)
Listeners == 1 .. MaxListeners

\* wakeword.py:129  self._thread.is_alive()
Alive(pos) == pos \in {"run", "test", "busy", "sleep"}

\* wakeword.py:138-139  self._thread.join(timeout=1.0)
AfterJoin(pos, joined) == IF joined /\ Alive(pos) THEN "dead" ELSE pos

\* wakeword.py:141-143  self._porcupine.delete()
AfterDelete(handle) == IF handle = "none" THEN "none" ELSE "deleted"

\* wakeword.py:73-79  the handle __init__ leaves
HandleOf(mode) == IF mode = "native" THEN "live" ELSE "none"

LcOff ==
    /\ lc_mode = [l \in Listeners |-> "none"]
    /\ lc_thread = [l \in Listeners |-> "none"]
    /\ lc_stop = [l \in Listeners |-> FALSE]
    /\ lc_handle = [l \in Listeners |-> "none"]
    /\ lc_last = [l \in Listeners |-> "new"]
    /\ lc_calls = [l \in Listeners |-> 0]
    /\ lc_late = [l \in Listeners |-> FALSE]
    /\ lc_used = [l \in Listeners |-> FALSE]
    /\ lc_current = 0

\* wakeword.py:39-79  one WakewordListener has been constructed, with a native
\* handle or with a whisper model for the fallback
ListenerInit ==
    \E mode \in {"native", "fallback"} :
        /\ lc_mode = [l \in Listeners |-> IF l = 1 THEN mode ELSE "none"]
        /\ lc_thread = [l \in Listeners |-> "none"]
        /\ lc_stop = [l \in Listeners |-> FALSE]
        /\ lc_handle = [l \in Listeners |-> IF l = 1 THEN HandleOf(mode) ELSE "none"]
        /\ lc_last = [l \in Listeners |-> "new"]
        /\ lc_calls = [l \in Listeners |-> 0]
    /\ lc_late = [l \in Listeners |-> FALSE]
        /\ lc_used = [l \in Listeners |-> FALSE]
        /\ lc_current = 0

\* wakeword.py:127-133  start()
StartListener(l) ==
    /\ lc_mode[l] # "none"
    /\ IF Alive(lc_thread[l])
       THEN UNCHANGED <<lc_stop, lc_thread>>
       ELSE /\ lc_stop' = [lc_stop EXCEPT ![l] = FALSE]
            /\ lc_thread' = [lc_thread EXCEPT ![l] = "run"]
    /\ lc_last' = [lc_last EXCEPT ![l] = "start"]
    /\ UNCHANGED <<lc_mode, lc_handle, lc_calls, lc_late, lc_used, lc_current>>
    /\ UNCHANGED lcOthers

\* wakeword.py:135-145  stop(): the flag is set, the thread joined for at most
\* 1 s (joined tells whether it ended in that time), the handle deleted
StopListener(l, joined) ==
    /\ lc_mode[l] # "none"
    /\ lc_stop' = [lc_stop EXCEPT ![l] = TRUE]
    /\ lc_thread' = [lc_thread EXCEPT ![l] = AfterJoin(@, joined)]
    /\ lc_handle' = [lc_handle EXCEPT ![l] = AfterDelete(@)]
    /\ lc_last' = [lc_last EXCEPT ![l] = "stop"]
    /\ UNCHANGED <<lc_mode, lc_calls, lc_late, lc_used, lc_current>>
    /\ UNCHANGED lcOthers

\* wakeword.py:147-159, 190-199  _run: to the native loop when there is a handle
\* object, to the fallback loop when there is a model, else the thread returns
RunListener(l) ==
    /\ lc_thread[l] = "run"
    /\ lc_thread' = [lc_thread EXCEPT ![l] = IF lc_mode[l] = "idle" THEN "dead" ELSE "test"]
    /\ UNCHANGED <<lc_mode, lc_stop, lc_handle, lc_last, lc_calls, lc_late, lc_used, lc_current>>
    /\ UNCHANGED lcOthers

\* wakeword.py:160,199  `while not self._stop_event.is_set()`; past it the loop
\* is in stream.read, or in sd.rec and sd.wait
LoopTest(l) ==
    /\ lc_thread[l] = "test"
    /\ lc_thread' = [lc_thread EXCEPT ![l] = IF lc_stop[l] THEN "dead" ELSE "busy"]
    /\ UNCHANGED <<lc_mode, lc_stop, lc_handle, lc_last, lc_calls, lc_late, lc_used, lc_current>>
    /\ UNCHANGED lcOthers

\* wakeword.py:161-179, 200-219  the rest of the loop body: the frame is given to
\* process(), or the clip transcribed; on a hit on_wakeword is called and the
\* loop sleeps; the fallback loop sleeps after every clip.  What process() does
\* on a deleted handle is not defined: it may raise, which the loop ignores, or
\* return anything.
LoopBody(l, hit) ==
    /\ lc_thread[l] = "busy"
    /\ hit => lc_calls[l] < MaxDetects
    /\ lc_calls' = [lc_calls EXCEPT ![l] = IF hit THEN @ + 1 ELSE @]
    /\ lc_used' = [lc_used EXCEPT ![l] = @ \/ (lc_mode[l] = "native" /\ lc_handle[l] = "deleted")]
    /\ lc_late' = [lc_late EXCEPT ![l] = @ \/ (hit /\ lc_last[l] = "stop")]
    /\ lc_thread' = [lc_thread EXCEPT ![l] =
          IF hit \/ lc_mode[l] = "fallback" THEN "sleep" ELSE "test"]
    /\ UNCHANGED <<lc_mode, lc_stop, lc_handle, lc_last, lc_current>>
    /\ UNCHANGED lcOthers

\* wakeword.py:176, 217, 219  time.sleep returns
LoopWake(l) ==
    /\ lc_thread[l] = "sleep"
    /\ lc_thread' = [lc_thread EXCEPT ![l] = "test"]
    /\ UNCHANGED <<lc_mode, lc_stop, lc_handle, lc_last, lc_calls, lc_late, lc_used, lc_current>>
    /\ UNCHANGED lcOthers

\* main.py:86-98  start_wakeword_listener (from __init__ or from apply_config with
\* the wakeword enabled): the old listener is stopped, a new one is constructed
\* with whisper_model=None and started.  native is whether its handle could be
\* created.
StartWakewordListener(native, joined) ==
    /\ \E new \in Listeners :
          /\ lc_mode[new] = "none"
          /\ \A l \in Listeners : l < new => lc_mode[l] # "none"
          /\ LET old == lc_current
                 mode == IF native THEN "native" ELSE "idle"
             IN /\ lc_mode' = [lc_mode EXCEPT ![new] = mode]
                /\ lc_handle' = [l \in Listeners |->
                      IF l = new THEN HandleOf(mode)
                      ELSE IF l = old THEN AfterDelete(lc_handle[l]) ELSE lc_handle[l]]
                /\ lc_stop' = [l \in Listeners |-> IF l = old THEN TRUE ELSE lc_stop[l]]
                /\ lc_thread' = [l \in Listeners |->
                      IF l = new THEN "run"
                      ELSE IF l = old THEN AfterJoin(lc_thread[l], joined) ELSE lc_thread[l]]
                /\ lc_last' = [l \in Listeners |->
                      IF l = new THEN "start" ELSE IF l = old THEN "stop" ELSE lc_last[l]]
                /\ old = 0 => joined
          /\ lc_current' = new
    /\ UNCHANGED <<lc_calls, lc_late, lc_used>>
    /\ UNCHANGED lcOthers

\* main.py:135-138  apply_config with the wakeword disabled: the listener is
\* stopped and forgotten
DisableWakeword(joined) ==
    /\ lc_current # 0
    /\ lc_stop' = [lc_stop EXCEPT ![lc_current] = TRUE]
    /\ lc_thread' = [lc_thread EXCEPT ![lc_current] = AfterJoin(@, joined)]
    /\ lc_handle' = [lc_handle EXCEPT ![lc_current] = AfterDelete(@)]
    /\ lc_last' = [lc_last EXCEPT ![lc_current] = "stop"]
    /\ lc_current' = 0
    /\ UNCHANGED <<lc_mode, lc_calls, lc_late, lc_used>>
    /\ UNCHANGED lcOthers

\* the detection thread of listener l
LoopNext(l) ==
    \/ RunListener(l)
    \/ LoopTest(l)
    \/ \E hit \in BOOLEAN : LoopBody(l, hit)
    \/ LoopWake(l)

\* one WakewordListener, started and stopped by its owner
ListenerNext ==
    \/ StartListener(1)
    \/ \E joined \in BOOLEAN : StopListener(1, joined)
    \/ LoopNext(1)

\* JarvisApp and the listeners it creates
RestartNext ==
    \/ \E native \in BOOLEAN, joined \in BOOLEAN : StartWakewordListener(native, joined)
    \/ \E joined \in BOOLEAN : DisableWakeword(joined)
    \/ \E l \in Listeners : LoopNext(l)

(***************************************************************************)
(* code_extract.py : extract_code.  A source file is the number of newline *)
(* characters in its content.                                              *)
(***************************************************************************)
\* code_extract.py:164-168  output_block.count('\n') for a content of k newlines:
\* four in the header, one after <<<<Code>>>>, one after the content, three at
\* the end
LinesInBlock(k) == 4 + 1 + k + 1 + 3

\* code_extract.py:169  a new part is begun before the block is written
SplitBefore(count, lines, max) == count + lines > max /\ count > 0

ExOff ==
    /\ ex_on = FALSE
    /\ max_lines_per_file = 1
    /\ files_left = 0
    /\ total_files_processed = 0
    /\ output_file_count = 1
    /\ current_line_count = 0

\* code_extract.py:93, 128-134  extract_code entered; the first part is opened
ExInit ==
    /\ ex_on = TRUE
    /\ max_lines_per_file \in 1 .. MaxLines
    /\ files_left = MaxFiles
    /\ total_files_processed = 0
    /\ output_file_count = 1
    /\ current_line_count = 0

\* code_extract.py:141-157  a file without extension, with an excluded or unknown
\* extension, or unreadable: `continue`
SkipFile ==
    /\ ex_on
    /\ files_left > 0
    /\ files_left' = files_left - 1
    /\ UNCHANGED <<ex_on, max_lines_per_file, total_files_processed, output_file_count,
                   current_line_count>>
    /\ UNCHANGED exOthers

\* code_extract.py:150-182  a source file of k newlines is read and its block
\* written, to a new part when the split test holds
WriteFile(k) ==
    /\ ex_on
    /\ files_left > 0
    /\ files_left' = files_left - 1
    /\ total_files_processed' = total_files_processed + 1
    /\ IF SplitBefore(current_line_count, LinesInBlock(k), max_lines_per_file)
       THEN /\ output_file_count' = output_file_count + 1
            /\ current_line_count' = 0 + LinesInBlock(k)
       ELSE /\ current_line_count' = current_line_count + LinesInBlock(k)
            /\ UNCHANGED output_file_count
    /\ UNCHANGED <<ex_on, max_lines_per_file>>
    /\ UNCHANGED exOthers

ExNext == SkipFile \/ \E k \in 0 .. MaxContent : WriteFile(k)

(***************************************************************************)
(* ui/orb.py : AnimatedOrb.  The orb animates through Tk timers: the GIF   *)
(* frame timer (_anim_id) or the pulse timer of the fallback dot            *)
(* (_pulse_job).                                                           *)
(***************************************************************************)
\* orb.py:52-58  the states with an entry in the tables
OrbStates == {"idle", "listening", "thinking", "speaking", "error"}

\* orb.py:68-74  _STATE_SPEED, in tenths
STATE_SPEED ==
    [idle |-> 6, listening |-> 16, thinking |-> 9, speaking |-> 20, error |-> 30]

\* what _load_gif may find: 0 stands for a file PIL cannot read (it raises),
\* n > 0 for a GIF of n frames
GifFiles == 0 .. MaxFrames

\* orb.py:334-340  one pulse step: the value moves by 0.03, or 0.045 when the
\* speed multiplier is above 1, and turns round at 0 and 1 (thousandths)
PulseStep(val, dir, speed) ==
    LET v == val + (IF speed > 10 THEN 45 ELSE 30) * dir
    IN IF v >= 1000 THEN [val |-> 1000, dir |-> -1]
       ELSE IF v <= 0 THEN [val |-> 0, dir |-> 1]
       ELSE [val |-> v, dir |-> dir]

\* Mutant: the handle is forgotten and its timer left pending.
CancelTimer_Forget(id, timers) == [id |-> "none", timers |-> timers]

\* orb.py:373-379, 455-460, 489-494, 530-535  `if id: after_cancel(id); id = None`:
\* the timer the handle names is removed when it is still pending
CancelTimer(id, timers) ==
    [id |-> "none", timers |-> IF id = "pending" THEN timers - 1 ELSE timers]

\* orb.py:293-322  _schedule_next_frame with n frames loaded, at index i: the
\* frame is shown, the timer of the old handle cancelled, a new one scheduled
NextFrame(running, n, i, id, timers) ==
    IF ~running \/ n = 0
    THEN [index |-> i, id |-> id, timers |-> timers]
    ELSE [index |-> (i + 1) % n, id |-> "pending",
          timers |-> CancelTimer(id, timers).timers + 1]

\* orb.py:325-371  _start_pulse_loop: step() runs once at once and schedules
\* itself
StartPulse(running, val, dir, speed, job, timers) ==
    IF ~running
    THEN [val |-> val, dir |-> dir, job |-> job, timers |-> timers]
    ELSE [val |-> PulseStep(val, dir, speed).val, dir |-> PulseStep(val, dir, speed).dir,
          job |-> "pending", timers |-> timers + 1]

\* the timer that fires is the one the handle names, or one no handle names
Fired(tracked, id, timers) ==
    [ok |-> IF tracked THEN id = "pending"
            ELSE timers > (IF id = "pending" THEN 1 ELSE 0),
     id |-> IF tracked THEN "stale" ELSE id,
     timers |-> timers - 1]

OrbOff ==
    /\ orb_alive = FALSE
    /\ o_state = "idle"
    /\ frames = 0
    /\ frame_index = 0
    /\ anim_running = FALSE
    /\ anim_id = "none"
    /\ pulse_job = "none"
    /\ frame_timers = 0
    /\ pulse_timers = 0
    /\ pulse_val = 0
    /\ pulse_dir = 1
    /\ label_kind = "gone"
    /\ gif_failed = FALSE

\* orb.py:119-259  AnimatedOrb.__init__: with a loadable GIF the image label is
\* made and the first frame shown; otherwise the dot is made and the pulse loop
\* started (speed multiplier still 1.0).  set_state("idle") at the end finds
\* the state unchanged.
OrbInit ==
    \E gif \in GifFiles :
        /\ orb_alive = TRUE
        /\ o_state = "idle"
        /\ frames = gif
        /\ anim_running = TRUE
        /\ frame_index = NextFrame(TRUE, gif, 0, "none", 0).index
        /\ anim_id = NextFrame(TRUE, gif, 0, "none", 0).id
        /\ frame_timers = NextFrame(TRUE, gif, 0, "none", 0).timers
        /\ pulse_job = IF gif = 0 THEN "pending" ELSE "none"
        /\ pulse_timers = IF gif = 0 THEN 1 ELSE 0
        /\ pulse_val = IF gif = 0 THEN PulseStep(0, 1, 10).val ELSE 0
        /\ pulse_dir = 1
        /\ label_kind = IF gif = 0 THEN "ctk" ELSE "tk"
        /\ gif_failed = FALSE

\* orb.py:395-467  set_state(state), also on an orb that was destroyed
SetState(state) ==
    /\ IF state = o_state
       THEN UNCHANGED <<o_state, frame_index, anim_id, frame_timers, pulse_job,
                        pulse_timers, pulse_val, pulse_dir>>
       ELSE /\ o_state' = state
            /\ IF frames > 0
               THEN LET c  == CancelTimer(anim_id, frame_timers)
                        nf == NextFrame(anim_running, frames, frame_index, c.id, c.timers)
                        cp == CancelTimer(pulse_job, pulse_timers)
                    IN /\ frame_index' = nf.index
                       /\ anim_id' = nf.id
                       /\ frame_timers' = nf.timers
                       /\ pulse_job' = cp.id
                       /\ pulse_timers' = cp.timers
                       /\ UNCHANGED <<pulse_val, pulse_dir>>
               ELSE LET cp == CancelTimer(pulse_job, pulse_timers)
                        sp == StartPulse(anim_running, pulse_val, pulse_dir,
                                         STATE_SPEED[state], cp.id, cp.timers)
                    IN /\ pulse_val' = sp.val
                       /\ pulse_dir' = sp.dir
                       /\ pulse_job' = sp.job
                       /\ pulse_timers' = sp.timers
                       /\ UNCHANGED <<frame_index, anim_id, frame_timers>>
    /\ UNCHANGED <<orb_alive, frames, anim_running, label_kind, gif_failed>>
    /\ UNCHANGED orbOthers

\* orb.py:293-322  a frame timer fires: _schedule_next_frame runs
FrameFires ==
    /\ \E tracked \in BOOLEAN :
          LET f  == Fired(tracked, anim_id, frame_timers)
              nf == NextFrame(anim_running, frames, frame_index, f.id, f.timers)
          IN /\ frame_timers > 0
             /\ f.ok
             /\ frame_index' = nf.index
             /\ anim_id' = nf.id
             /\ frame_timers' = nf.timers
    /\ UNCHANGED <<orb_alive, o_state, frames, anim_running, pulse_job, pulse_timers,
                   pulse_val, pulse_dir, label_kind, gif_failed>>
    /\ UNCHANGED orbOthers

\* orb.py:330-368  a pulse timer fires: step runs
PulseFires ==
    /\ \E tracked \in BOOLEAN :
          LET f  == Fired(tracked, pulse_job, pulse_timers)
              sp == StartPulse(anim_running, pulse_val, pulse_dir, STATE_SPEED[o_state],
                               f.id, f.timers)
          IN /\ pulse_timers > 0
             /\ f.ok
             /\ pulse_val' = sp.val
             /\ pulse_dir' = sp.dir
             /\ pulse_job' = sp.job
             /\ pulse_timers' = sp.timers
    /\ UNCHANGED <<orb_alive, o_state, frames, frame_index, anim_running, anim_id,
                   frame_timers, label_kind, gif_failed>>
    /\ UNCHANGED orbOthers

\* orb.py:486-498, 522-525  set_gif when _load_gif raises: the animation has been
\* stopped and both timers cancelled, and the handler empties the frame lists
SetGifFailed(val, dir, speed) ==
    [frames |-> 0, running |-> FALSE, val |-> val, dir |-> dir, job |-> "none"]

\* orb.py:479-525  set_gif(path) on a path that exists, with PIL available
SetGif(gif) ==
    /\ orb_alive
    /\ pulse_timers' = CancelTimer(pulse_job, pulse_timers).timers
    /\ IF gif = 0
       THEN LET f == SetGifFailed(pulse_val, pulse_dir, STATE_SPEED[o_state])
            IN /\ frames' = f.frames
               /\ anim_running' = f.running
               /\ pulse_val' = f.val
               /\ pulse_dir' = f.dir
               /\ pulse_job' = f.job
               /\ anim_id' = CancelTimer(anim_id, frame_timers).id
               /\ frame_timers' = CancelTimer(anim_id, frame_timers).timers
               /\ gif_failed' = TRUE
               /\ UNCHANGED <<frame_index, label_kind>>
       ELSE LET c  == CancelTimer(anim_id, frame_timers)
                nf == NextFrame(TRUE, gif, 0, c.id, c.timers)
            IN /\ frames' = gif
               /\ anim_running' = TRUE
               /\ frame_index' = nf.index
               /\ anim_id' = nf.id
               /\ frame_timers' = nf.timers
               /\ pulse_job' = CancelTimer(pulse_job, pulse_timers).id
               /\ label_kind' = "tk"
               /\ gif_failed' = FALSE
               /\ UNCHANGED <<pulse_val, pulse_dir>>
    /\ UNCHANGED <<orb_alive, o_state>>
    /\ UNCHANGED orbOthers

\* orb.py:527-544  destroy
Destroy ==
    /\ orb_alive
    /\ orb_alive' = FALSE
    /\ anim_running' = FALSE
    /\ anim_id' = CancelTimer(anim_id, frame_timers).id
    /\ frame_timers' = CancelTimer(anim_id, frame_timers).timers
    /\ pulse_job' = CancelTimer(pulse_job, pulse_timers).id
    /\ pulse_timers' = CancelTimer(pulse_job, pulse_timers).timers
    /\ label_kind' = "gone"
    /\ UNCHANGED <<o_state, frames, frame_index, pulse_val, pulse_dir, gif_failed>>
    /\ UNCHANGED orbOthers

OrbNext ==
    \/ \E state \in OrbStates : SetState(state)
    \/ FrameFires
    \/ PulseFires
    \/ \E gif \in GifFiles : SetGif(gif)
    \/ Destroy

(***************************************************************************)
(* core/wakeword.py : WakewordListener.  A string is the sequence of its   *)
(* characters.                                                             *)
(***************************************************************************)
\* str.lower() on one character
LowerCh(ch) ==
    CASE ch = "J" -> "j"
      [] ch = "A" -> "a"
      [] ch = "O" -> "o"
      [] ch = "D" -> "d"
      [] OTHER -> ch

\* str.lower()
LowerStr(str) == [i \in 1 .. Len(str) |-> LowerCh(str[i])]

\* str.strip(): leading and trailing blanks removed
RECURSIVE LStrip(_)
LStrip(str) == IF str # <<>> /\ Head(str) = " " THEN LStrip(Tail(str)) ELSE str

RECURSIVE RStrip(_)
RStrip(str) ==
    IF str # <<>> /\ str[Len(str)] = " " THEN RStrip(SubSeq(str, 1, Len(str) - 1)) ELSE str

Strip(str) == RStrip(LStrip(str))

\* `key in text` on strings
IsSub(key, text) ==
    \E i \in 0 .. Len(text) - Len(key) : SubSeq(text, i + 1, i + Len(key)) = key

\* wakeword.py:42  the default "jarvis", written with two letters
DefaultWakeword == <<"j", "a">>

\* wakeword.py:60  (wakeword or "jarvis").lower().strip()
NormalizeWakeword(arg) == Strip(LowerStr(IF arg = <<>> THEN DefaultWakeword ELSE arg))

\* the wakeword arguments explored: none, one blank, the word in mixed case, and
\* the word in mixed case with a trailing blank
KeywordArgs == {<<>>, <<" ">>, <<"J", "a">>, <<"j", "A", " ">>}

\* what whisper may return for a clip, before .lower()
Transcripts == {<<>>, <<"a", "J", "A">>, <<"j", "a", " ">>, <<"a", "j">>}

\* wakeword.py:207-211  the result of transcribe: a text, or an exception
Heard == {[ok |-> TRUE, text |-> t] : t \in Transcripts} \cup {[ok |-> FALSE, text |-> <<>>]}

\* wakeword.py:208-210  text = res.get("text", "").lower(), or "" on an exception
HeardText(res) == IF res.ok THEN LowerStr(res.text) ELSE <<>>

\* wakeword.py:212  `if self.wakeword in text`
FallbackMatch(key, res) == IsSub(key, HeardText(res))

\* wakeword.py:102-111  the pvporcupine.create signatures tried, in order
Attempts(key, kpaths) ==
    (IF key THEN (IF kpaths THEN <<"key_paths">> ELSE <<"key_kws">>) ELSE <<>>)
    \o (IF kpaths THEN <<"paths">> ELSE <<"kws">>)

Signatures == {"key_paths", "key_kws", "paths", "kws"}

\* how one pvporcupine.create call may end
CreateOutcomes == {"ok", "TypeError", "Error"}

\* wakeword.py:113-125  _init_porcupine: the first attempt that succeeds gives the
\* handle; TypeError and any other Exception move on to the next attempt; when
\* none is left RuntimeError is raised.
InitPorcupine(att, out) ==
    IF \E i \in 1 .. Len(att) : out[att[i]] = "ok" THEN "live" ELSE "RuntimeError"

\* Mutant: __init__ without its try/except around _init_porcupine.
InitFailure_Propagates(exc) ==
    [ctor |-> "raised", porcupine |-> "none", use |-> TRUE, failed |-> TRUE]

\* wakeword.py:76-79  `except Exception`: the handle is None and use_porcupine False
InitFailure(exc) ==
    [ctor |-> "returned", porcupine |-> "none", use |-> FALSE, failed |-> TRUE]

\* wakeword.py:63,73-79  what __init__ leaves behind
CtorOutcome(useArg, pv, att, out) ==
    LET use0 == useArg /\ pv
    IN IF use0 /\ pv
       THEN IF InitPorcupine(att, out) = "live"
            THEN [ctor |-> "returned", porcupine |-> "live", use |-> TRUE, failed |-> FALSE]
            ELSE InitFailure(InitPorcupine(att, out))
       ELSE [ctor |-> "returned", porcupine |-> "none", use |-> use0, failed |-> FALSE]

\* Mutant: the fallback loop is entered without a model.
FallbackCanRun_Always(model) == TRUE

\* wakeword.py:190  `if self.whisper_model is None: ... return`
FallbackCanRun(model) == model

\* wakeword.py:185-199  entering _run_whisper_fallback: the loop, or the report
\* and the end of the thread
FallbackEntry(model) ==
    IF FallbackCanRun(model)
    THEN [thread |-> "fb", reported |-> FALSE]
    ELSE [thread |-> "dead", reported |-> TRUE]

\* Mutant: the loops run on whatever the stop flag is.
LoopGoesOn_Always(stop) == TRUE

\* wakeword.py:160,199  `while not self._stop_event.is_set()`
LoopGoesOn(stop) == ~stop

\* Mutant: _run_porcupine without its outer try/except.
OnStreamError_Crash(model) == [thread |-> "crashed", reported |-> FALSE]

\* wakeword.py:180-182  `except Exception` around the native loop: fallback
OnStreamError(model) == FallbackEntry(model)

\* wakeword.py:129  `self._thread and self._thread.is_alive()`
ThreadAlive == thread \in {"run", "pp", "pp_sleep", "fb", "fb_sleep"}

NativeLoop   == thread \in {"pp", "pp_sleep"}
FallbackLoop == thread \in {"fb", "fb_sleep"}

\* 1 when the test holds, else 0
Count(flag) == IF flag THEN 1 ELSE 0

\* keyword frames the stream holds
BufferedHits == Cardinality({i \in 1 .. Len(pp_buf) : pp_buf[i].kw})

WlInit ==
    /\ wl_ctor = "none"
    /\ wakeword_arg = <<>>
    /\ wakeword = <<>>
    /\ whisper_model = FALSE
    /\ use_porcupine = FALSE
    /\ porcupine = "none"
    /\ create_failed = FALSE
    /\ stop_event = FALSE
    /\ thread = "none"
    /\ pp_open = 0
    /\ pp_buf = <<>>
    /\ on_calls = 0
    /\ cool_det = FALSE
    /\ fb_log = {}
    /\ proc_err = FALSE
    /\ read_err = FALSE
    /\ reported = FALSE
    /\ starts = 0

\* wakeword.py:39-79  WakewordListener.__init__
Construct(arg, useArg, pv, key, kpaths, model, out) ==
    /\ wl_ctor = "none"
    /\ LET r == CtorOutcome(useArg, pv, Attempts(key, kpaths), out)
       IN /\ wl_ctor' = r.ctor
          /\ porcupine' = r.porcupine
          /\ use_porcupine' = r.use
          /\ create_failed' = r.failed
    /\ wakeword_arg' = arg
    /\ wakeword' = NormalizeWakeword(arg)
    /\ whisper_model' = model
    /\ UNCHANGED <<stop_event, thread, pp_open, pp_buf, on_calls, cool_det, fb_log,
                   proc_err, read_err, reported, starts>>
    /\ UNCHANGED wlOthers

\* wakeword.py:127-133  start(): nothing when the thread is alive, else the flag is
\* cleared and a new thread is started
Start ==
    /\ wl_ctor = "returned"
    /\ starts < MaxStarts
    /\ IF ThreadAlive
       THEN UNCHANGED <<stop_event, thread, starts, proc_err, read_err>>
       ELSE /\ stop_event' = FALSE
            /\ thread' = "run"
            /\ starts' = starts + 1
            /\ proc_err' = FALSE
            /\ read_err' = FALSE
    /\ UNCHANGED <<wl_ctor, wakeword_arg, wakeword, whisper_model, use_porcupine, porcupine,
                   create_failed, pp_open, pp_buf, on_calls, cool_det, fb_log, reported>>
    /\ UNCHANGED wlOthers

\* wakeword.py:135-145  stop(): the flag is set, the thread is joined for at most
\* 1 s, and the handle, when there is one, is deleted
Stop ==
    /\ wl_ctor = "returned"
    /\ stop_event' = TRUE
    /\ porcupine' = IF porcupine = "none" THEN "none" ELSE "deleted"
    /\ UNCHANGED <<wl_ctor, wakeword_arg, wakeword, whisper_model, use_porcupine, create_failed,
                   thread, pp_open, pp_buf, on_calls, cool_det, fb_log,
                   proc_err, read_err, reported, starts>>
    /\ UNCHANGED wlOthers

\* wakeword.py:147-159  _run: with a handle, _run_porcupine opens and starts its
\* stream (opened is whether InputStream(...) returned, started whether
\* stream.start() did); without one, _run_whisper_fallback.
Run(opened, started) ==
    /\ thread = "run"
    /\ IF use_porcupine /\ porcupine # "none"
       THEN IF opened /\ started
            THEN /\ thread' = "pp"
                 /\ pp_open' = pp_open + 1
                 /\ UNCHANGED <<read_err, reported>>
            ELSE /\ Count(read_err) < MaxErrors
                 /\ thread' = OnStreamError(whisper_model).thread
                 /\ reported' = (reported \/ OnStreamError(whisper_model).reported)
                 /\ pp_open' = pp_open + Count(opened)
                 /\ read_err' = TRUE
       ELSE /\ opened /\ started
            /\ thread' = FallbackEntry(whisper_model).thread
            /\ reported' = (reported \/ FallbackEntry(whisper_model).reported)
            /\ UNCHANGED <<pp_open, read_err>>
    /\ UNCHANGED <<wl_ctor, wakeword_arg, wakeword, whisper_model, use_porcupine, porcupine,
                   create_failed, stop_event, pp_buf, on_calls, cool_det, fb_log,
                   proc_err, starts>>
    /\ UNCHANGED wlOthers

\* wakeword.py:160-179  one pass of the native loop: the flag is tested, a frame is
\* read (the oldest one the stream holds, else the one being captured, which holds
\* the keyword or not), and the engine processes it.  how is "ok", "read" when
\* stream.read raises, or "process" when self._porcupine.process raises.
NativeStep(kw, how) ==
    /\ thread = "pp"
    /\ IF ~LoopGoesOn(stop_event)
       THEN /\ kw = FALSE /\ how = "ok"
            /\ thread' = "dead"
            /\ pp_buf' = <<>>
            /\ UNCHANGED <<on_calls, cool_det, proc_err, read_err, reported>>
       ELSE IF how = "read"
       THEN /\ kw = FALSE
            /\ Count(read_err) < MaxErrors
            /\ read_err' = TRUE
            /\ thread' = OnStreamError(whisper_model).thread
            /\ reported' = (reported \/ OnStreamError(whisper_model).reported)
            /\ pp_buf' = <<>>
            /\ UNCHANGED <<on_calls, cool_det, proc_err>>
       ELSE LET frame == IF pp_buf # <<>> THEN Head(pp_buf)
                         ELSE [kw |-> kw, cool |-> FALSE]
            IN /\ pp_buf # <<>> => kw = FALSE
               /\ pp_buf = <<>> /\ kw => on_calls < MaxDetects
               /\ pp_buf' = IF pp_buf # <<>> THEN Tail(pp_buf) ELSE pp_buf
               /\ IF how = "process"
                  THEN /\ Count(proc_err) < MaxErrors
                       /\ proc_err' = TRUE
                       /\ thread' = "pp"
                       /\ UNCHANGED <<on_calls, cool_det>>
                  ELSE /\ UNCHANGED proc_err
                       /\ IF frame.kw
                          THEN /\ on_calls' = on_calls + 1
                               /\ cool_det' = (cool_det \/ frame.cool)
                               /\ thread' = "pp_sleep"
                          ELSE /\ thread' = "pp"
                               /\ UNCHANGED <<on_calls, cool_det>>
               /\ UNCHANGED <<read_err, reported>>
    /\ UNCHANGED <<wl_ctor, wakeword_arg, wakeword, whisper_model, use_porcupine, porcupine,
                   create_failed, stop_event, pp_open, fb_log, starts>>
    /\ UNCHANGED wlOthers

\* wakeword.py:158,176  while the loop is in time.sleep(0.5) the started stream goes
\* on capturing: a frame, holding the keyword or not, is buffered for the next read
CooldownCapture(kw) ==
    /\ thread = "pp_sleep"
    /\ Len(pp_buf) < MaxBuffered
    /\ kw => on_calls + BufferedHits < MaxDetects
    /\ pp_buf' = Append(pp_buf, [kw |-> kw, cool |-> TRUE])
    /\ UNCHANGED <<wl_ctor, wakeword_arg, wakeword, whisper_model, use_porcupine, porcupine,
                   create_failed, stop_event, thread, pp_open, on_calls, cool_det,
                   fb_log, proc_err, read_err, reported, starts>>
    /\ UNCHANGED wlOthers

\* wakeword.py:176  time.sleep(0.5) returns
CooldownEnds ==
    /\ thread = "pp_sleep"
    /\ thread' = "pp"
    /\ UNCHANGED <<wl_ctor, wakeword_arg, wakeword, whisper_model, use_porcupine, porcupine,
                   create_failed, stop_event, pp_open, pp_buf, on_calls, cool_det,
                   fb_log, proc_err, read_err, reported, starts>>
    /\ UNCHANGED wlOthers

\* wakeword.py:199-221  one pass of the fallback loop: the flag is tested, a 2 s
\* clip is recorded (recorded is whether sd.rec and sd.wait returned) and
\* transcribed to res, and on a match on_wakeword is called.
FallbackStep(recorded, res) ==
    /\ thread = "fb"
    /\ IF ~LoopGoesOn(stop_event)
       THEN /\ recorded /\ ~res.ok
            /\ thread' = "dead"
            /\ UNCHANGED <<on_calls, fb_log, read_err>>
       ELSE IF ~recorded
       THEN /\ ~res.ok
            /\ Count(read_err) < MaxErrors
            /\ read_err' = TRUE
            /\ thread' = "dead"
            /\ UNCHANGED <<on_calls, fb_log>>
       ELSE LET hit == FallbackMatch(wakeword, res)
            IN /\ hit => on_calls < MaxDetects
               /\ on_calls' = on_calls + Count(hit)
               /\ fb_log' = {[heard |-> res, calls |-> Count(hit)]}
               /\ thread' = "fb_sleep"
               /\ UNCHANGED read_err
    /\ UNCHANGED <<wl_ctor, wakeword_arg, wakeword, whisper_model, use_porcupine, porcupine,
                   create_failed, stop_event, pp_open, pp_buf, cool_det,
                   proc_err, reported, starts>>
    /\ UNCHANGED wlOthers

\* wakeword.py:217,219  time.sleep(0.6) or time.sleep(0.5) returns
FallbackWake ==
    /\ thread = "fb_sleep"
    /\ thread' = "fb"
    /\ UNCHANGED <<wl_ctor, wakeword_arg, wakeword, whisper_model, use_porcupine, porcupine,
                   create_failed, stop_event, pp_open, pp_buf, on_calls, cool_det,
                   fb_log, proc_err, read_err, reported, starts>>
    /\ UNCHANGED wlOthers

ThreadNext ==
    \/ \E opened \in BOOLEAN, started \in BOOLEAN : Run(opened, started)
    \/ \E kw \in BOOLEAN, how \in {"ok", "read", "process"} : NativeStep(kw, how)
    \/ CooldownEnds
    \/ \E recorded \in BOOLEAN, res \in Heard : FallbackStep(recorded, res)
    \/ FallbackWake

WlNext ==
    \/ \E arg \in KeywordArgs, useArg \in BOOLEAN, pv \in BOOLEAN, key \in BOOLEAN,
          kpaths \in BOOLEAN, model \in BOOLEAN, out \in [Signatures -> CreateOutcomes] :
          Construct(arg, useArg, pv, key, kpaths, model, out)
    \/ Start
    \/ Stop
    \/ \E opened \in BOOLEAN, started \in BOOLEAN : Run(opened, started)
    \/ \E kw \in BOOLEAN, how \in {"ok", "read", "process"} : NativeStep(kw, how)
    \/ \E kw \in BOOLEAN : CooldownCapture(kw)
    \/ CooldownEnds
    \/ \E recorded \in BOOLEAN, res \in Heard : FallbackStep(recorded, res)
    \/ FallbackWake

(***************************************************************************)
(* ui/window.py : _handle_command as a function of its text.  A text is    *)
(* the sequence of its characters.                                         *)
(***************************************************************************)
\* the strings _handle_command looks for (window.py:213, 219, 224, 229)
OpenPrefix == <<"o", "p", "e", "n", " ">>
Download   == <<"d", "o", "w", "n", "l", "o", "a", "d">>
Explain    == <<"e", "x", "p", "l", "a", "i", "n">>
Screen     == <<"s", "c", "r", "e", "e", "n">>
System     == <<"s", "y", "s", "t", "e", "m">>
Cpu        == <<"c", "p", "u">>
Memory     == <<"m", "e", "m", "o", "r", "y">>

\* what command texts are put together from: the strings above, two of them with
\* a capital, a blank and a letter
Pieces ==
    {OpenPrefix, <<"O", "p", "e", "n", " ">>, Download, <<"D", "o", "w", "n", "l", "o", "a", "d">>, Explain, Screen, System, Cpu, Memory,
     <<" ">>, <<"x">>}

\* the texts of at most n pieces
RECURSIVE TextsOf(_)
TextsOf(n) ==
    IF n = 0 THEN {<<>>}
    ELSE TextsOf(n - 1) \cup {t \o p : t \in TextsOf(n - 1), p \in Pieces}

CommandTexts == TextsOf(MaxPieces)

\* str.startswith
StartsWith(str, prefix) ==
    Len(str) >= Len(prefix) /\ SubSeq(str, 1, Len(prefix)) = prefix

\* Mutant: the system rule is tried before the download rule.
Dispatched_SystemFirst(text) ==
    LET q == Strip(LowerStr(text))
    IN IF q = <<>> THEN <<>>
       ELSE IF StartsWith(q, OpenPrefix) THEN <<"open">>
       ELSE IF IsSub(System, q) \/ IsSub(Cpu, q) \/ IsSub(Memory, q) THEN <<"system">>
       ELSE IF IsSub(Download, q) THEN <<"download">>
       ELSE IF IsSub(Explain, q) /\ IsSub(Screen, q) THEN <<"explain">>
       ELSE <<"search">>

\* window.py:207-256  _handle_command: the actions it dispatches for a text
\* (webbrowser.open, the download_via_search thread, the screen_ocr_loop thread,
\* system_stats, or the search thread)
Dispatched(text) ==
    LET q == Strip(LowerStr(text))
    IN IF q = <<>> THEN <<>>
       ELSE IF StartsWith(q, OpenPrefix) THEN <<"open">>
       ELSE IF IsSub(Download, q) THEN <<"download">>
       ELSE IF IsSub(Explain \o <<" ">> \o Screen, q) \/ (IsSub(Explain, q) /\ IsSub(Screen, q))
            THEN <<"explain">>
       ELSE IF IsSub(System, q) \/ IsSub(Cpu, q) \/ IsSub(Memory, q) THEN <<"system">>
       ELSE <<"search">>

DpOff ==
    /\ dp_text = <<>>
    /\ dp_pc = "off"
    /\ dp_acts = <<>>

\* _handle_command is about to be called on a text
DpInit ==
    /\ dp_text \in CommandTexts
    /\ dp_pc = "call"
    /\ dp_acts = <<>>

\* window.py:207-256  the call
HandleCommandCall ==
    /\ dp_pc = "call"
    /\ dp_pc' = "done"
    /\ dp_acts' = Dispatched(dp_text)
    /\ UNCHANGED dp_text
    /\ UNCHANGED dpOthers

DpNext == HandleCommandCall

(***************************************************************************)
(* utils/search.py : download_via_search and download_file_with_progress,  *)
(* called with a gui_cb.  The argument and the url are kept by kind:       *)
(* "plain" is a URL urlparse accepts, "bracket" one with an unmatched      *)
(* square bracket in its host, for which urlparse raises ValueError.       *)
(***************************************************************************)
Arguments == {"", "http-plain", "http-bracket", "query"}

\* search.py:60-98  search_top_result on a query: None, or a result whose
\* href is of one of the kinds
TopResults == {"none", "plain", "bracket"}

DlOff ==
    /\ dl_pc = "off"
    /\ query_or_url = ""
    /\ gui_confirm = FALSE
    /\ url = ""
    /\ ok = "unset"
    /\ asked = 0
    /\ pieces = 0
    /\ written = -1
    /\ idle_notes = 0
    /\ progress_notes = 0

\* download_via_search is about to be called
DlInit ==
    /\ dl_pc = "call"
    /\ query_or_url \in Arguments
    /\ gui_confirm \in BOOLEAN
    /\ url = ""
    /\ ok = "unset"
    /\ asked = 0
    /\ pieces = 0
    /\ written = -1
    /\ idle_notes = 0
    /\ progress_notes = 0

\* search.py:181-193  the argument is looked at and the url chosen
Resolve(top) ==
    /\ dl_pc = "call"
    /\ IF query_or_url = "" \/ (query_or_url = "query" /\ top = "none")
       THEN /\ idle_notes' = idle_notes + 1
            /\ dl_pc' = "returned"
            /\ UNCHANGED url
       ELSE /\ url' = IF query_or_url = "http-plain" THEN "plain"
                      ELSE IF query_or_url = "http-bracket" THEN "bracket"
                      ELSE top
            /\ dl_pc' = "resolved"
            /\ UNCHANGED idle_notes
    /\ UNCHANGED <<query_or_url, gui_confirm, ok, asked, pieces, written, progress_notes>>
    /\ UNCHANGED dlOthers

\* search.py:195-205  the file name is taken from urlparse(url).path and the
\* confirmation asked for
Confirm(answer) ==
    /\ dl_pc = "resolved"
    /\ IF url = "bracket"
       THEN /\ dl_pc' = "raised"
            /\ UNCHANGED <<ok, asked, idle_notes>>
       ELSE /\ ok' = IF gui_confirm THEN answer ELSE "yes"
            /\ asked' = IF gui_confirm THEN asked + 1 ELSE asked
            /\ dl_pc' = IF ok' = "yes" THEN "download" ELSE "returned"
            /\ idle_notes' = IF ok' = "yes" THEN idle_notes ELSE idle_notes + 1
    /\ UNCHANGED <<query_or_url, gui_confirm, url, pieces, written, progress_notes>>
    /\ UNCHANGED dlOthers

\* search.py:145-155  download_file_with_progress up to open(dest, "wb"): any
\* step may raise, and the handler at 168-172 reports the failure
Request(failed, n) ==
    /\ dl_pc = "download"
    /\ IF failed
       THEN /\ idle_notes' = idle_notes + 1
            /\ dl_pc' = "returned"
            /\ UNCHANGED <<pieces, written>>
       ELSE /\ pieces' = n
            /\ written' = 0
            /\ dl_pc' = "pieces"
            /\ UNCHANGED idle_notes
    /\ UNCHANGED <<query_or_url, gui_confirm, url, ok, asked, progress_notes>>
    /\ UNCHANGED dlOthers

\* search.py:156-164, 168-172  one pass of the loop over iter_content
Piece(failed) ==
    /\ dl_pc = "pieces"
    /\ pieces > 0
    /\ IF failed
       THEN /\ idle_notes' = idle_notes + 1
            /\ dl_pc' = "returned"
            /\ UNCHANGED <<pieces, written, progress_notes>>
       ELSE /\ pieces' = pieces - 1
            /\ written' = written + 1
            /\ progress_notes' = progress_notes + 1
            /\ UNCHANGED <<dl_pc, idle_notes>>
    /\ UNCHANGED <<query_or_url, gui_confirm, url, ok, asked>>
    /\ UNCHANGED dlOthers

\* search.py:165-167  the response is exhausted
Downloaded ==
    /\ dl_pc = "pieces"
    /\ pieces = 0
    /\ idle_notes' = idle_notes + 1
    /\ dl_pc' = "returned"
    /\ UNCHANGED <<query_or_url, gui_confirm, url, ok, asked, pieces, written, progress_notes>>
    /\ UNCHANGED dlOthers

DlNext ==
    \/ \E top \in TopResults : Resolve(top)
    \/ \E answer \in {"yes", "no"} : Confirm(answer)
    \/ \E failed \in BOOLEAN, n \in 0 .. MaxChunks : Request(failed, n)
    \/ \E failed \in BOOLEAN : Piece(failed)
    \/ Downloaded

InitWake == WlInit /\ CapOff /\ AppOff /\ GuiOff /\ PlInit /\ OrbOff /\ ExOff /\ LcOff /\ DpOff /\ DlOff

SpecWake == InitWake /\ [][WlNext]_vars

\* The listener's thread is scheduled, and audio reads, transcriptions, on_wakeword
\* and the sleeps return.
FairWake == InitWake /\ [][WlNext]_vars /\ WF_vars(ThreadNext)

InitPipeline == PlInit /\ CapOff /\ AppOff /\ GuiOff /\ WlInit /\ OrbOff /\ ExOff /\ LcOff /\ DpOff /\ DlOff

SpecPipeline == InitPipeline /\ [][PlNext]_vars

InitGUI == GuiInit /\ CapOff /\ AppOff /\ WlInit /\ PlInit /\ OrbOff /\ ExOff /\ LcOff /\ DpOff /\ DlOff

SpecGUI == InitGUI /\ [][GuiNext]_vars

\* JarvisGUI with an audio device that may be unavailable
SpecGUIErr == InitGUI /\ [][GuiErrNext]_vars

InitApp == AppInit /\ CapOff /\ GuiOff /\ WlInit /\ PlInit /\ OrbOff /\ ExOff /\ LcOff /\ DpOff /\ DlOff

SpecApp == InitApp /\ [][AppNext]_vars

InitAppCfg == AppInitFromFile /\ CapOff /\ GuiOff /\ WlInit /\ PlInit /\ OrbOff /\ ExOff /\ LcOff /\ DpOff /\ DlOff

\* JarvisApp with its settings window
SpecAppCfg == InitAppCfg /\ [][AppCfgNext]_vars

InitCapture == CapInit /\ AppOff /\ GuiOff /\ WlInit /\ PlInit /\ OrbOff /\ ExOff /\ LcOff /\ DpOff /\ DlOff

InitOrb == OrbInit /\ CapOff /\ AppOff /\ GuiOff /\ WlInit /\ PlInit /\ ExOff /\ LcOff /\ DpOff /\ DlOff

\* AnimatedOrb alone
SpecOrb == InitOrb /\ [][OrbNext]_vars

InitExtract == ExInit /\ CapOff /\ AppOff /\ GuiOff /\ WlInit /\ PlInit /\ OrbOff /\ LcOff /\ DpOff /\ DlOff

\* one call of extract_code
SpecExtract == InitExtract /\ [][ExNext]_vars

InitListener ==
    ListenerInit /\ CapOff /\ AppOff /\ GuiOff /\ WlInit /\ PlInit /\ OrbOff /\ ExOff /\ DpOff /\ DlOff

\* one WakewordListener under start() and stop()
SpecListener == InitListener /\ [][ListenerNext]_vars

InitRestart == LcOff /\ CapOff /\ AppOff /\ GuiOff /\ WlInit /\ PlInit /\ OrbOff /\ ExOff /\ DpOff /\ DlOff

\* JarvisApp replacing its listener
SpecRestart == InitRestart /\ [][RestartNext]_vars

InitDispatch ==
    DpInit /\ CapOff /\ AppOff /\ GuiOff /\ WlInit /\ PlInit /\ OrbOff /\ ExOff /\ LcOff /\ DlOff

\* one call of _handle_command
SpecDispatch == InitDispatch /\ [][DpNext]_vars

InitDownload ==
    DlInit /\ CapOff /\ AppOff /\ GuiOff /\ WlInit /\ PlInit /\ OrbOff /\ ExOff /\ LcOff /\ DpOff

\* one call of download_via_search
SpecDownload == InitDownload /\ [][DlNext]_vars

SpecCapture == InitCapture /\ [][CapNext]_vars

\* The audio stream delivers every chunk it is asked for.
FairCapture == InitCapture /\ [][CapNext]_vars /\ WF_vars(CapNext)

(***************************************************************************)
(* Claims about record_until_silence (SpecCapture, FairCapture).           *)
(***************************************************************************)
\* The clip returned by the capture.
Clip == buffer_blocks

\* A chunk the code counts as silence / as the start of speech, whatever the phase.
BelowThreshold(l) == l < rms_threshold
AboveThreshold(l) == l > rms_threshold

\* buf is n chunks below the threshold, then m above it, then k below it.
Pattern(buf, n, m, k) ==
    /\ Len(buf) = n + m + k
    /\ \A i \in 1 .. n : BelowThreshold(buf[i])
    /\ \A i \in n + 1 .. n + m : AboveThreshold(buf[i])
    /\ \A i \in n + m + 1 .. n + m + k : BelowThreshold(buf[i])

Thm_C6 == cap_pc = "done" => Len(Clip) * chunk_dur <= max_duration + chunk_dur

\* C6 witness: a capture ended by the deadline whose clip overshoots max_duration.
Wit_C6 ==
    /\ cap_pc = "done"
    /\ max_duration > 0
    /\ Len(Clip) * chunk_dur > max_duration
    /\ voiced

\* C7: every capture terminates, whatever the chunks are.
Thm_C7 == <>(cap_pc = "done")

\* C7 witness: a capture of silence only, ended by the deadline after several chunks.
Wit_C7 ==
    /\ cap_pc = "done"
    /\ ~voiced
    /\ Len(Clip) >= 3
    /\ \A i \in 1 .. Len(Clip) : Clip[i] = 0

\* C8: every returned clip holds at least one chunk.
Thm_C8 == cap_pc = "done" => Len(Clip) >= 1

\* C8 witness: a capture with max_duration = 0 returns one chunk.
Wit_C8 == cap_pc = "done" /\ max_duration = 0 /\ Len(Clip) = 1

\* C9: a chunk with RMS below the threshold is treated as SILENT and a chunk with
\* RMS at or above the threshold as VOICED.
Claim_C9 ==
    \A t \in treated :
        /\ t[1] < rms_threshold => t[3] = "SILENT"
        /\ t[1] >= rms_threshold => t[3] = "VOICED"

\* C10: the classification depends on the RMS and the threshold alone: chunks of
\* equal RMS are treated alike in the pre-speech and in the in-speech phase.
Claim_C10 ==
    \A t1 \in treated : \A t2 \in treated :
        t1[1] = t2[1] => t1[3] = t2[3]

\* C11: an all-zero chunk (RMS 0) is treated as SILENT at every threshold, 0
\* included, in the pre-speech and in the in-speech phase, so that all-zero chunks
\* after speech count towards silence_chunks.
Claim_C11 ==
    /\ \A t \in treated : t[1] = 0 => t[3] = "SILENT"
    /\ (voiced /\ buffer_blocks # <<>> /\ buffer_blocks[Len(buffer_blocks)] = 0
          /\ Len(buffer_blocks) >= 2 /\ buffer_blocks[Len(buffer_blocks) - 1] > rms_threshold)
        => silence_count = 1

(***************************************************************************)
(* Claims about JarvisApp (SpecApp).                                       *)
(***************************************************************************)
InFlight(c) == cyc_phase[c] \in {"listening", "thinking", "speaking"}

\* C2: transitions are serialized: once a cycle has started, the observer is given
\* no state belonging to a later trigger before that cycle has returned to idle,
\* and it never sees "idle" set by an older cycle while a newer cycle is listening,
\* thinking or speaking.
Claim_C2 ==
    \A c1 \in Cycles : \A c2 \in Cycles :
        c1 < c2 =>
            /\ ~(InFlight(c1) /\ last_emit.cyc = c2)
            /\ ~(last_emit = [cyc |-> c1, st |-> "idle"] /\ InFlight(c2))

\* C2, second part alone: the stale "idle".
Claim_C2_StaleIdle ==
    \A c1 \in Cycles : \A c2 \in Cycles :
        c1 < c2 => ~(last_emit = [cyc |-> c1, st |-> "idle"] /\ InFlight(c2))

\* C27: a missing or failing orb never keeps a cycle from finishing: once every
\* timer of the triggered flows has fired, the status label reads "Idle".
Claim_C27 == cycles > 0 /\ after_q = <<>> => app_status = "Idle"

(***************************************************************************)
(* Claims about JarvisApp and its configuration (SpecAppCfg).              *)
(***************************************************************************)
\* the record in force switches the wakeword off
Disabled == "wakeword_enabled" \in DOMAIN config_data /\ ~config_data["wakeword_enabled"]

\* C22: while the configuration in force disables the wakeword, no detection loop
\* is running and no wakeword-detected cycle begins (the label never comes to
\* read "Wakeword detected!").
Claim_C22 == Disabled => ~listener_alive /\ app_status # "Wakeword detected!"

\* C23: label, orb and appearance mode are mutated on the UI context only.
Claim_C23 == last_ctx = "ui"

NativeMode   == wl_ctor = "returned" /\ use_porcupine /\ porcupine # "none"
FallbackMode == wl_ctor = "returned" /\ ~(use_porcupine /\ porcupine # "none")

\* C12: when the native engine could not be constructed, start() has been called
\* and stop() has not, a detection loop is running or about to run (audio-device
\* errors aside): the listener never stays without a detector.
Claim_C12 ==
    FallbackMode /\ starts > 0 /\ ~stop_event /\ ~read_err
        => thread \in {"run", "fb", "fb_sleep"}

\* C13: __init__ never raises, and when every pvporcupine.create attempt has failed
\* it has returned with no handle and use_porcupine off.
Thm_C13 ==
    /\ wl_ctor # "raised"
    /\ create_failed => wl_ctor = "returned" /\ porcupine = "none" /\ ~use_porcupine

\* C13 witness: every attempt failed, and the listener built that way was started
\* and runs its fallback loop.
Wit_C13 == create_failed /\ wl_ctor = "returned" /\ FallbackMode /\ thread = "fb"

\* C14: in fallback mode with no model, start() leaves no loop behind: the thread
\* ends after reporting, no clip is recorded and on_wakeword is never called.
Thm_C14 ==
    FallbackMode /\ ~whisper_model =>
        /\ thread \in {"none", "run", "dead"}
        /\ fb_log = {}
        /\ on_calls = 0
        /\ pp_open = 0
        /\ thread = "dead" => reported

\* C14 witness: a listener in fallback mode with no model was started, has
\* reported and has ended, stop() not having been called.
Wit_C14 ==
    /\ FallbackMode /\ ~whisper_model
    /\ starts = 1 /\ ~stop_event
    /\ thread = "dead" /\ reported

\* C15: no frame captured during the cooldown that follows a detection leads to
\* another on_wakeword call.
Claim_C15 == ~cool_det

\* the keyword the listener is configured with: the argument, "jarvis" when none
\* is given, blanks around it aside
Configured == Strip(IF wakeword_arg = <<>> THEN DefaultWakeword ELSE wakeword_arg)

\* C16: for each clip of the fallback loop, on_wakeword is called once when the
\* configured keyword occurs in the transcript, letter case aside, and not at all
\* otherwise; a clip whose transcription raised leads to no call.
Claim_C16 ==
    \A r \in fb_log :
        /\ r.calls = Count(r.heard.ok /\ IsSub(LowerStr(Configured), LowerStr(r.heard.text)))
        /\ ~r.heard.ok => r.calls = 0

\* C17 as stated: once stream.read or self._porcupine.process has raised in a
\* native run, the listener has left the native loop.
Claim_C17 == NativeMode /\ (read_err \/ proc_err) => ~NativeLoop

\* C17 as amended: an error from opening, starting or reading the stream ends the
\* native loop and enters _run_whisper_fallback on the same thread, which loops
\* when a model is set and reports and returns when none is; an error from
\* process leaves the listener in its native loop; the thread never dies of an
\* uncaught exception.
Thm_C17 ==
    /\ thread # "crashed"
    /\ NativeMode /\ read_err =>
          /\ thread \in {"fb", "fb_sleep", "dead"}
          /\ ~whisper_model => thread = "dead" /\ reported
    /\ NativeMode /\ proc_err /\ ~read_err =>
          \/ NativeLoop
          \/ thread = "dead" /\ stop_event

\* C17 witness: a native run in which stream.read raised; the thread is in the
\* fallback loop and has handled a clip.
Wit_C17 ==
    /\ NativeMode /\ read_err /\ pp_open = 1
    /\ thread = "fb_sleep" /\ fb_log # {}

\* C18: once stop() has set the flag, the running thread ends.
Thm_C18 == (stop_event /\ ThreadAlive) ~> ~ThreadAlive

\* C18 witness: a thread that ran the native loop, switched to the fallback loop,
\* handled a clip there and ended after stop().
Wit_C18 ==
    /\ stop_event /\ thread = "dead"
    /\ pp_open = 1 /\ on_calls >= 1 /\ fb_log # {}

\* C19: no stream opened by _run_porcupine is open once the native loop has ended
\* (the thread has ended or runs the fallback loop).
Claim_C19 == thread \in {"none", "dead", "crashed", "fb", "fb_sleep"} => pp_open = 0

\* C25: an exception inside one pass of a detector loop (here sd.rec or sd.wait
\* raising in the fallback loop) never ends the loop: while stop() has not been
\* called, the thread is alive and goes on to later passes.
Claim_C25 ==
    FallbackMode /\ whisper_model /\ starts > 0 /\ ~stop_event => ThreadAlive

(***************************************************************************)
(* Claims about the idle pipeline (SpecPipeline).                          *)
(***************************************************************************)
\* the numbers of the clips in a sequence of clips
Numbers(clips) == [i \in 1 .. Len(clips) |-> clips[i].n]

\* C21: the clips handed to transcription, followed by the clips still queued, are
\* the recorded clips in recording order, each exactly once; and the pop never
\* finds the queue empty, whatever the recorder appended between test and pop.
Thm_C21 ==
    /\ Numbers(pl_heard \o pl_q) = [i \in 1 .. pl_made |-> i]
    /\ pl_pc = "pop" => pl_q # <<>>

\* C21 witness: the processor has handled one clip and stands between its test and
\* its pop with two clips queued.
Wit_C21 == pl_pc = "pop" /\ Len(pl_heard) = 1 /\ Len(pl_q) = 2

(***************************************************************************)
(* Claims about JarvisGUI (SpecGUI).                                       *)
(***************************************************************************)
\* the updates of cycle c still queued on the main loop, in order
RECURSIVE Pending(_, _)
Pending(q, c) ==
    IF q = <<>> THEN <<>>
    ELSE IF Head(q).cyc = c /\ Head(q).kind = "update"
         THEN <<<<Head(q).status, Head(q).note>>>> \o Pending(Tail(q), c)
         ELSE Pending(Tail(q), c)

\* the statuses among a sequence of updates
RECURSIVE Statuses(_)
Statuses(us) ==
    IF us = <<>> THEN <<>>
    ELSE IF Head(us)[1] # "" THEN <<Head(us)[1]>> \o Statuses(Tail(us))
         ELSE Statuses(Tail(us))

Transcribed(c) == cyc_text[c] # <<"?">>

\* cycle c is over: its clip is transcribed, its worker has ended and the observer
\* has applied every update the cycle queued
Complete(c) ==
    /\ Transcribed(c)
    /\ worker[c] = "none"
    /\ ~\E i \in 1 .. Len(gui_q) : gui_q[i].cyc = c

\* C1: triggers arriving from different contexts (idle-loop wake detection and
\* push-to-talk) never lead to two captures: the capture the idle loop starts after
\* a wake match and a push-to-talk capture are never in progress together.
Claim_C1 == ~(proc_pc = "capturing" /\ man_pc = "recording")

\* C3: a cycle started by a wake detection whose clip transcribes to a non-empty
\* text notifies the observer of five transitions (capturing, transcribing,
\* dispatching, responding, idle), in that order: five status updates, the first
\* for capturing ("Listening") and the last for idle.
Claim_C3 ==
    \A c \in GuiCycles :
        cyc_path[c] = "wake" /\ Complete(c) /\ cyc_text[c] # <<>> =>
            LET st == Statuses(seen[c])
            IN /\ Len(st) = 5
               /\ st[1] = "Listening"
               /\ st[5] = "Idle"

\* C4: on every capture path, a clip transcribed to the empty text never reaches
\* _handle_command and starts no worker; the cycle queues one update carrying
\* "No speech detected" with status "Idle" and no "Thinking" or "Searching", and
\* when the cycle is over the observer has applied that update last.
Thm_C4 ==
    \A c \in GuiCycles :
        Transcribed(c) /\ cyc_text[c] = <<>> =>
            LET all == seen[c] \o Pending(gui_q, c)
            IN /\ cyc_disp[c] = 0
               /\ worker[c] = "none"
               /\ all # <<>>
               /\ all[Len(all)] = <<"Idle", "No speech detected">>
               /\ Statuses(all) \in {<<"Idle">>, <<"Listening", "Idle">>}
               /\ (cyc_path[c] = "wake") = (Statuses(all) = <<"Idle">>)
               /\ Complete(c) =>
                    /\ seen[c][Len(seen[c])] = <<"Idle", "No speech detected">>

\* C4 witness: a wake cycle and a restore-and-listen cycle, both transcribed to
\* the empty text by the active model, both over.
Wit_C4 ==
    /\ active_model
    /\ \E c1 \in GuiCycles, c2 \in GuiCycles :
          /\ cyc_path[c1] = "wake" /\ cyc_path[c2] = "restore"
          /\ cyc_text[c1] = <<>> /\ cyc_text[c2] = <<>>
          /\ Complete(c1) /\ Complete(c2)
          /\ status_label = "Idle"

\* C4 (push-to-talk path): the same for manual_listen.
Wit_C4_ptt ==
    /\ active_model
    /\ \E c \in GuiCycles :
          cyc_path[c] = "ptt" /\ cyc_text[c] = <<>> /\ Complete(c)

\* the input streams open at once in JarvisGUI: the idle recorder's, the wake
\* capture's, the push-to-talk capture's and those of restore-and-listen
ActiveStreams ==
    Count(idle_rec) + Count(proc_pc = "capturing") + Count(man_pc = "recording")
    + Cardinality(restoring)

\* C20: at most one audio input stream is active at any time.
Claim_C20 == ActiveStreams <= 1

\* the Tk main loop is inside a handler that records from the microphone
UIBlocked == man_pc = "recording"

\* C24: no blocking operation runs on the UI context: the Tk main loop is never
\* inside a handler that records, transcribes or fetches.
Claim_C24 == ~UIBlocked


Quiet ==
    /\ gui_q = <<>>
    /\ man_pc = "idle"
    /\ restoring = {}
    /\ proc_pc = "poll"
    /\ \A c \in GuiCycles : worker[c] = "none"

\* the capture of cycle c is over
CaptureOver(c) ==
    /\ c <= ncycles
    /\ ~(man_pc = "recording" /\ man_cyc = c)
    /\ c \notin restoring
    /\ ~(proc_pc = "capturing" /\ proc_cyc = c)

\* C26: once everything has settled after a push-to-talk or restore-and-listen
\* cycle whose recording call raised, and that cycle was the last to begin, the
\* status does not read "Listening".
Claim_C26 ==
    Quiet /\ ncycles > 0 /\ cyc_raised[ncycles] /\ cyc_path[ncycles] \in {"ptt", "restore"}
        => status_label # "Listening"

\* C28: once the capture of a cycle is over, however it ended, the temporary file
\* of that cycle no longer exists.
Claim_C28 == \A c \in GuiCycles : CaptureOver(c) => cyc_file[c] = "removed"

(***************************************************************************)
(* Claims about AnimatedOrb (SpecOrb).                                     *)
(***************************************************************************)
\* a timer of the GIF animation or of the pulse loop is pending
Animating == anim_id = "pending" \/ pulse_job = "pending"

\* C38: at most one animation callback is pending, whatever calls and timer
\* firings came before, and none is pending once the orb is destroyed, also
\* after later set_state calls.
Thm_C38 ==
    /\ frame_timers + pulse_timers <= 1
    /\ ~orb_alive => frame_timers + pulse_timers = 0

\* an orb that began with the pulsing dot plays a GIF in another state than idle
Wit_C38 == frames > 0 /\ pulse_val > 0 /\ frame_timers = 1 /\ o_state # "idle"

\* C30: after a set_gif call that failed while loading, the orb goes on
\* animating, also through later set_state calls.
Claim_C30 == orb_alive /\ gif_failed => Animating

(***************************************************************************)
(* Claims about extract_code (SpecExtract).                                *)
(***************************************************************************)
\* C31: the part being written, hence every part, holds at most
\* max_lines_per_file lines.
Claim_C31 == current_line_count <= max_lines_per_file

(***************************************************************************)
(* Claims about start() and stop() (SpecListener, SpecRestart).            *)
(***************************************************************************)
\* C33: on_wakeword is not called once stop() has returned.
Claim_C33 == \A l \in Listeners : ~lc_late[l]

\* C34: process() is never called on a handle that delete() has released.
Claim_C34 == \A l \in Listeners : ~lc_used[l]

\* C35: when start() was the last call to return, the stop flag is clear and the
\* detection thread is alive.
Claim_C35 ==
    \A l \in Listeners : lc_last[l] = "start" => ~lc_stop[l] /\ Alive(lc_thread[l])

\* the thread is inside its detection loop
InLoop(pos) == pos \in {"test", "busy", "sleep"}

\* C36: at most one listener of the application has a thread inside its
\* detection loop.
Claim_C36 == Cardinality({l \in Listeners : InLoop(lc_thread[l])}) <= 1

(***************************************************************************)
(* Claims about _handle_command (SpecDispatch).                            *)
(***************************************************************************)
\* the lower-cased, trimmed text
Trimmed == Strip(LowerStr(dp_text))

\* the rules in their order, and whether a rule matches the trimmed text q
Rules == <<"open", "download", "explain", "system", "search">>

Matches(rule, q) ==
    CASE rule = "open" -> StartsWith(q, OpenPrefix)
      [] rule = "download" -> IsSub(Download, q)
      [] rule = "explain" -> IsSub(Explain, q) /\ IsSub(Screen, q)
      [] rule = "system" -> IsSub(System, q) \/ IsSub(Cpu, q) \/ IsSub(Memory, q)
      [] OTHER -> TRUE

\* C37: a call on an empty or blank text dispatches nothing; on any other text it
\* dispatches exactly one action, that of the first rule in the order which
\* matches the lower-cased, trimmed text.
Thm_C37 ==
    dp_pc = "done" =>
        IF Trimmed = <<>> THEN dp_acts = <<>>
        ELSE /\ Len(dp_acts) = 1
             /\ \E i \in 1 .. Len(Rules) :
                   /\ dp_acts[1] = Rules[i]
                   /\ Matches(Rules[i], Trimmed)
                   /\ \A j \in 1 .. i - 1 : ~Matches(Rules[j], Trimmed)

\* a text in which two rules match, "download" and "system", has been handled
Wit_C37 ==
    /\ dp_pc = "done"
    /\ IsSub(Download, Trimmed)
    /\ IsSub(System, Trimmed)
    /\ dp_acts = <<"download">>

\* the call of download_via_search is over, by a return or by an exception
Exited == dl_pc \in {"returned", "raised"}

\* C39: with a confirm callback no download starts without a confirmation, a
\* declined confirmation leaves no file written, and every exit of the call
\* has delivered exactly one notification with status "Idle".
Claim_C39 ==
    /\ (gui_confirm /\ dl_pc \in {"download", "pieces"}) => (asked = 1 /\ ok = "yes")
    /\ ok = "no" => written = -1
    /\ Exited => idle_notes = 1

====
